---------------------------- MODULE Spec2Model ----------------------------
(***************************************************************************)
(* A model of the intersection and shading engine of scintilla_rs.         *)
(*                                                                         *)
(* Numbers.  The program computes in f64.  The model computes in exact     *)
(* rationals [n, d] (d > 0, lowest terms) extended with the infinities and *)
(* NaN, so every comparison the code makes (t >= 0, t < distance,          *)
(* t == self.t, sin2 > 1, ...) is taken on the exact value.  Rounding is   *)
(* not modelled.                                                           *)
(*                                                                         *)
(* Geometry.  Rays, points and vectors live on the Y axis (x = z = 0): a   *)
(* tuple is represented by its y component, a transform by the affine map  *)
(* y |-> s*y + c it induces on that axis.  An untransformed plane (the XZ  *)
(* plane) is perpendicular to the axis and a cube is centred on it, so     *)
(* reflection and refraction keep every secondary ray on the axis.         *)
(***************************************************************************)
EXTENDS Integers, Sequences, FiniteSets, TLC

VARIABLES
    world,      \* World { light, objects }
    stack,      \* the call stack of World::color_at invocations
    result,     \* what the outermost call returned
    call,       \* the call being made: function name and arguments
    ret         \* the call that returned last, and what it returned

vars == <<world, stack, result, call, ret>>

---------------------------------------------------------------------------
(* f64 values: exact rationals [n, d] in lowest terms with d > 0, and the   *)
(* three special values of IEEE arithmetic, written with d = 0:            *)
(* +infinity [1, 0], -infinity [-1, 0] and NaN [0, 0].  There is one zero  *)
(* (no -0.0).                                                              *)
(*                                                                         *)
(* Let(v, LAMBDA x : e) is e with x standing for the value of v: a Rust    *)
(* `let x = v;` in front of e.                                             *)

Let(v, F(_)) == F(v)

RECURSIVE GCD(_, _)
GCD(a, b) == IF b = 0 THEN a ELSE GCD(b, a % b)

Abs(x) == IF x < 0 THEN -x ELSE x
Sgn(x) == IF x < 0 THEN -1 ELSE IF x > 0 THEN 1 ELSE 0

NaN == [n |-> 0, d |-> 0]
INFINITY == [n |-> 1, d |-> 0]
NEG_INFINITY == [n |-> -1, d |-> 0]

\* The value n0/d0.
R(n, d) ==
    IF d = 0 THEN [n |-> Sgn(n), d |-> 0]
    ELSE Let(GCD(Abs(n), Abs(d)), LAMBDA g :
             [n |-> Sgn(d) * (n \div g), d |-> Abs(d) \div g])

I(n) == [n |-> n, d |-> 1]

IsNaN(a) == a.d = 0 /\ a.n = 0

RNeg(a) == [n |-> -a.n, d |-> a.d]
RAbs(a) == [n |-> Abs(a.n), d |-> a.d]

RAdd(a, b) ==
    IF a.d = 0 /\ b.d = 0 THEN (IF a.n = b.n THEN a ELSE NaN)
    ELSE IF a.d = 0 THEN a
    ELSE IF b.d = 0 THEN b
    ELSE Let(GCD(a.d, b.d), LAMBDA g :
             R(a.n * (b.d \div g) + b.n * (a.d \div g), (a.d \div g) * b.d))

RSub(a, b) == RAdd(a, RNeg(b))

RMul(a, b) ==
    IF a.d = 0 \/ b.d = 0 THEN [n |-> Sgn(a.n) * Sgn(b.n), d |-> 0]
    ELSE IF a.n = 0 \/ b.n = 0 THEN I(0)
    ELSE Let(GCD(Abs(a.n), b.d), LAMBDA g1 :
         Let(GCD(Abs(b.n), a.d), LAMBDA g2 :
             [n |-> (a.n \div g1) * (b.n \div g2),
              d |-> (a.d \div g2) * (b.d \div g1)]))

\* 1/b: 1/0 is +infinity and 1/infinity is 0.
RInv(b) ==
    IF b.d = 0 THEN (IF b.n = 0 THEN NaN ELSE I(0))
    ELSE IF b.n = 0 THEN INFINITY
    ELSE [n |-> Sgn(b.n) * b.d, d |-> Abs(b.n)]

RDiv(a, b) == RMul(a, RInv(b))

\* The comparisons of f64: every comparison with NaN is false.
REq(a, b) == ~IsNaN(a) /\ a = b

RLt(a, b) ==
    IF IsNaN(a) \/ IsNaN(b) \/ a = b THEN FALSE
    ELSE IF a.d = 0 THEN a.n < 0
    ELSE IF b.d = 0 THEN b.n > 0
    ELSE Let(GCD(a.d, b.d), LAMBDA g :
             a.n * (b.d \div g) < b.n * (a.d \div g))

RLe(a, b) == RLt(a, b) \/ REq(a, b)
RGt(a, b) == RLt(b, a)
RGe(a, b) == RLe(b, a)

\* f64::max and f64::min: a NaN operand is ignored.
RMax(a, b) ==
    IF IsNaN(a) THEN b ELSE IF IsNaN(b) THEN a
    ELSE IF RLt(a, b) THEN b ELSE a

RMin(a, b) ==
    IF IsNaN(a) THEN b ELSE IF IsNaN(b) THEN a
    ELSE IF RLt(b, a) THEN b ELSE a

Zero == I(0)
One == I(1)
Two == I(2)

\* float::EPSILON
EPSILON == [n |-> 1, d |-> 100000]

\* float::is_equal
float_is_equal(a, b) == RLt(RAbs(RSub(a, b)), EPSILON)

SeqsUpTo(S, n) == UNION {[1..k -> S] : k \in 0..n}

None == <<>>
Some(x) == <<x>>

---------------------------------------------------------------------------
(* intersection.rs: Intersection, hit.                                     *)

\* Intersection { t, object }: object is the borrowed reference, modelled
\* by the position of the object in World::objects.
Intersection(t, object) == [t |-> t, object |-> object]

\* Vec::sort_by(|i1, i2| i1.t.partial_cmp(&i2.t).unwrap()): a stable sort
\* ascending by t (elements with equal t keep their order).
RECURSIVE insert_by_t(_, _)
insert_by_t(sorted, x) ==
    IF sorted = <<>> THEN <<x>>
    ELSE IF RLe(sorted[Len(sorted)].t, x.t) THEN Append(sorted, x)
    ELSE Append(insert_by_t(SubSeq(sorted, 1, Len(sorted) - 1), x),
                sorted[Len(sorted)])

RECURSIVE sort_by_t(_)
sort_by_t(xs) ==
    IF xs = <<>> THEN <<>>
    ELSE insert_by_t(sort_by_t(SubSeq(xs, 1, Len(xs) - 1)), xs[Len(xs)])

\* hit with the filter t > 0 in place of t >= 0: a hit at t = 0 is dropped.
hit_strictly_positive(intersections) ==
    Let(SelectSeq(sort_by_t(intersections), LAMBDA i : RGt(i.t, Zero)),
        LAMBDA forward : IF forward = <<>> THEN None ELSE Some(forward[1]))

\* hit: sorts the vector in place, then returns the first element with
\* t >= 0, or None.
hit(intersections) ==
    Let(SelectSeq(sort_by_t(intersections), LAMBDA i : RGe(i.t, Zero)),
        LAMBDA forward : IF forward = <<>> THEN None ELSE Some(forward[1]))

---------------------------------------------------------------------------
(* Direct calls of hit on arbitrary intersection lists.                    *)

MaxHitLen == 3

HitTs == {I(-3), I(-1), I(0), I(2), I(5), I(7)}

HitObjects == 1..2

\* test_hit_unsorted_intersection: {5, 7, -3, 2} against a common object.
HitTestList ==
    <<Intersection(I(5), 1), Intersection(I(7), 1),
      Intersection(I(-3), 1), Intersection(I(2), 1)>>

HitInputs ==
    SeqsUpTo([t : HitTs, object : HitObjects], MaxHitLen) \cup {HitTestList}

NoWorld == [light |-> <<>>, objects |-> <<>>]
NoCall == [fn |-> "none"]
NoRet == [fn |-> "none"]

InitHit ==
    /\ world = NoWorld
    /\ stack = <<>>
    /\ result = None
    /\ \E xs \in HitInputs : call = [fn |-> "hit", intersections |-> xs]
    /\ ret = NoRet

CallHit ==
    /\ call.fn = "hit"
    /\ ret.fn = "none"
    /\ ret' = [fn |-> "hit",
               value |-> hit(call.intersections),
               intersections |-> sort_by_t(call.intersections)]
    /\ UNCHANGED <<world, stack, result, call>>

NextHit == CallHit

SpecHit == InitHit /\ [][NextHit]_vars

\* C1: hit returns an intersection of the list whose t is the least of the
\* t values that are >= 0 (t = 0 counts), whatever the order of the list,
\* and returns None exactly when every t is negative or the list is empty.
C1_HitIsNearestNonNegative ==
    ret.fn = "hit" =>
        LET xs == call.intersections
            h == ret.value
        IN  /\ (h = None) <=> (\A k \in DOMAIN xs : RLt(xs[k].t, Zero))
            /\ h # None =>
                /\ \E k \in DOMAIN xs : xs[k] = h[1]
                /\ RGe(h[1].t, Zero)
                /\ \A k \in DOMAIN xs :
                       RGe(xs[k].t, Zero) => RLe(h[1].t, xs[k].t)

\* The unsorted list {5, 7, -3, 2} yields the intersection with t = 2.
C1_Witness ==
    /\ ret.fn = "hit"
    /\ call.intersections = HitTestList
    /\ ret.value = Some(Intersection(I(2), 1))

---------------------------------------------------------------------------
(* tuple.rs: a Tuple [x, y, z, w] with x = z = 0 is the pair [y, w].       *)

point(y) == [y |-> y, w |-> One]
vector(y) == [y |-> y, w |-> Zero]

add(a, b) == [y |-> RAdd(a.y, b.y), w |-> RAdd(a.w, b.w)]
subtract(a, b) == [y |-> RSub(a.y, b.y), w |-> RSub(a.w, b.w)]
multiply(a, s) == [y |-> RMul(s, a.y), w |-> RMul(s, a.w)]
negate(a) == [y |-> RNeg(a.y), w |-> RNeg(a.w)]
divide(a, s) == [y |-> RDiv(a.y, s), w |-> RDiv(a.w, s)]
dot(a, b) == RAdd(RMul(a.y, b.y), RMul(a.w, b.w))

\* (x*x + y*y + z*z).sqrt() with x = z = 0: the square root of y*y is |y|.
magnitude(a) == RAbs(a.y)

normalize(a) == divide(a, magnitude(a))

reflect(a, normal) ==
    subtract(a, multiply(normal, RMul(Two, dot(a, normal))))

---------------------------------------------------------------------------
(* matrix.rs, transform.rs: the transforms of the model are products of    *)
(* translations along the axis and uniform scalings.  Such a matrix is the *)
(* pair [s, c]: s on the diagonal, c in the translation column of row y.   *)
(* tr marks a transposed matrix, whose c sits in the bottom row instead.   *)

IDENTITY == [s |-> One, c |-> Zero, tr |-> FALSE]
translation(y) == [s |-> One, c |-> y, tr |-> FALSE]
scaling(k) == [s |-> k, c |-> Zero, tr |-> FALSE]

\* a * b for untransposed a, b.
multiply_matrix(a, b) ==
    [s |-> RMul(a.s, b.s), c |-> RAdd(RMul(a.s, b.c), a.c), tr |-> FALSE]

multiply_tuple(m, t) ==
    IF m.tr THEN [y |-> RMul(m.s, t.y), w |-> RAdd(RMul(m.c, t.y), t.w)]
    ELSE [y |-> RAdd(RMul(m.s, t.y), RMul(m.c, t.w)), w |-> t.w]

transpose(m) == [m EXCEPT !.tr = ~m.tr]

\* The determinant of diag(s, s, s, 1) with a translation column.
determinant(m) == RMul(m.s, RMul(m.s, m.s))

\* An inverse that divides whatever the determinant is.
inverse_unchecked(m) ==
    Some([s |-> RDiv(One, m.s), c |-> RNeg(RDiv(m.c, m.s)), tr |-> FALSE])

\* inverse: None when the determinant is 0.
inverse(m) ==
    IF REq(determinant(m), Zero) THEN None
    ELSE Some([s |-> RDiv(One, m.s), c |-> RNeg(RDiv(m.c, m.s)), tr |-> FALSE])

\* Matrix4::is_equal: every element within EPSILON.
Matrix_is_equal(a, b) ==
    /\ a.tr = b.tr
    /\ float_is_equal(a.s, b.s)
    /\ float_is_equal(a.c, b.c)

unwrap(option) == option[1]

---------------------------------------------------------------------------
(* color.rs, light.rs, ray.rs                                              *)

Color(r, g, b) == [r |-> r, g |-> g, b |-> b]
BLACK == Color(Zero, Zero, Zero)
WHITE == Color(One, One, One)

Color_add(a, b) == Color(RAdd(a.r, b.r), RAdd(a.g, b.g), RAdd(a.b, b.b))
Color_multiply(a, s) == Color(RMul(a.r, s), RMul(a.g, s), RMul(a.b, s))
hadamard(a, b) == Color(RMul(a.r, b.r), RMul(a.g, b.g), RMul(a.b, b.b))

Light(position, intensity) == [position |-> position, intensity |-> intensity]

Ray(origin, direction) == [origin |-> origin, direction |-> direction]

position_at(ray, t) == add(ray.origin, multiply(ray.direction, t))

Ray_transform(ray, m) ==
    Ray(multiply_tuple(m, ray.origin), multiply_tuple(m, ray.direction))

---------------------------------------------------------------------------
(* material.rs, object.rs: materials carry a solid colour (patterns are    *)
(* not modelled).                                                          *)

DEFAULT_MATERIAL ==
    [color |-> WHITE,
     ambient |-> R(1, 10),
     diffuse |-> R(9, 10),
     specular |-> R(9, 10),
     shininess |-> I(200),
     reflective |-> Zero,
     transparency |-> Zero,
     refractive |-> One]

\* Sphere::new, Plane::new, Cube::new: the inverse is computed once.
Object(kind, transform, material) ==
    [kind |-> kind,
     transform |-> transform,
     inverse_transform |-> unwrap(inverse(transform)),
     material |-> material]

Sphere(transform, material) == Object("Sphere", transform, material)
Plane(transform, material) == Object("Plane", transform, material)
Cube(transform, material) == Object("Cube", transform, material)

get_material(object) == object.material

\* is_equal comparing the transforms alone.
Object_is_equal_any_variant(a, b) == Matrix_is_equal(a.transform, b.transform)

\* Object::is_equal: same variant and transforms equal within EPSILON;
\* the material plays no part.
Object_is_equal(a, b) ==
    a.kind = b.kind /\ Matrix_is_equal(a.transform, b.transform)

---------------------------------------------------------------------------
(* sphere.rs, plane.rs, cube.rs: the shapes in their own space.            *)

\* The integer square root of a perfect square.
ISqrt(n) == CHOOSE r \in 0..n : r * r = n

\* f64::sqrt, on the values whose root is rational; NaN below zero.
RSqrt(q) ==
    IF IsNaN(q) \/ RLt(q, Zero) THEN NaN
    ELSE IF q.d = 0 THEN q
    ELSE [n |-> ISqrt(q.n), d |-> ISqrt(q.d)]

Sphere_intersect(local_ray) ==
    Let(subtract(local_ray.origin, point(Zero)), LAMBDA sphere_to_ray :
    Let(dot(local_ray.direction, local_ray.direction), LAMBDA a :
    Let(RMul(Two, dot(local_ray.direction, sphere_to_ray)), LAMBDA b :
    Let(RSub(dot(sphere_to_ray, sphere_to_ray), One), LAMBDA c :
    Let(RSub(RMul(b, b), RMul(RMul(I(4), a), c)), LAMBDA discriminant :
        IF RLt(discriminant, Zero) THEN <<>>
        ELSE IF REq(discriminant, Zero) THEN <<RDiv(RDiv(RNeg(b), Two), a)>>
        ELSE <<RDiv(RDiv(RSub(RNeg(b), RSqrt(discriminant)), Two), a),
               RDiv(RDiv(RAdd(RNeg(b), RSqrt(discriminant)), Two), a)>>)))))

\* Sphere::normal_at receives the point Object::normal_at has already
\* brought to object space, and applies the inverse transform to it again.
Sphere_normal_at(sphere, local_point) ==
    LET object_point == multiply_tuple(sphere.inverse_transform, local_point)
        object_normal == subtract(object_point, point(Zero))
        world_normal ==
            multiply_tuple(transpose(sphere.inverse_transform), object_normal)
    IN  normalize([world_normal EXCEPT !.w = Zero])

Plane_intersect(local_ray) ==
    IF RLt(RAbs(local_ray.direction.y), EPSILON) THEN <<>>
    ELSE <<RDiv(RNeg(local_ray.origin.y), local_ray.direction.y)>>

Plane_normal_at(local_point) == vector(One)

\* check_axis without the exchange of the two values.
check_axis_unordered(origin, direction) ==
    Let(RSub(I(-1), origin), LAMBDA tmin_numerator :
    Let(RSub(One, origin), LAMBDA tmax_numerator :
        IF RGe(RAbs(direction), EPSILON)
        THEN <<RDiv(tmin_numerator, direction),
               RDiv(tmax_numerator, direction)>>
        ELSE <<RMul(tmin_numerator, INFINITY),
               RMul(tmax_numerator, INFINITY)>>))

check_axis(origin, direction) ==
    Let(RSub(I(-1), origin), LAMBDA tmin_numerator :
    Let(RSub(One, origin), LAMBDA tmax_numerator :
    Let(IF RGe(RAbs(direction), EPSILON)
        THEN <<RDiv(tmin_numerator, direction),
               RDiv(tmax_numerator, direction)>>
        ELSE <<RMul(tmin_numerator, INFINITY),
               RMul(tmax_numerator, INFINITY)>>, LAMBDA t :
        IF RGt(t[1], t[2]) THEN <<t[2], t[1]>> ELSE t)))

\* The x and z components of the local ray are 0.
Cube_intersect(local_ray) ==
    Let(check_axis(Zero, Zero), LAMBDA xt :
    Let(check_axis(local_ray.origin.y, local_ray.direction.y), LAMBDA yt :
    Let(check_axis(Zero, Zero), LAMBDA zt :
    Let(RMax(RMax(xt[1], yt[1]), zt[1]), LAMBDA tmin :
    Let(RMin(RMin(xt[2], yt[2]), zt[2]), LAMBDA tmax :
        IF RGt(tmin, tmax) THEN <<>> ELSE <<tmin, tmax>>)))))

\* With x = z = 0: maxc is |y|; the x branch is taken when |y| is within
\* EPSILON of |x| = 0 and returns the vector (x, 0, 0), which is zero.
Cube_normal_at(local_point) ==
    Let(RMax(RMax(Zero, RAbs(local_point.y)), Zero), LAMBDA maxc :
        IF float_is_equal(maxc, Zero) THEN vector(Zero)
        ELSE IF float_is_equal(maxc, RAbs(local_point.y))
        THEN vector(local_point.y)
        ELSE vector(Zero))

---------------------------------------------------------------------------
(* object.rs: Object::intersect, Object::normal_at.  An Intersection       *)
(* refers to its object by the object's position in World::objects.        *)

\* The intersections of objects[o] with world_ray.
Object_intersect(objects, o, world_ray) ==
    Let(objects[o], LAMBDA object :
    Let(Ray_transform(world_ray, object.inverse_transform), LAMBDA local_ray :
    Let(CASE object.kind = "Sphere" -> Sphere_intersect(local_ray)
          [] object.kind = "Plane" -> Plane_intersect(local_ray)
          [] object.kind = "Cube" -> Cube_intersect(local_ray), LAMBDA ts :
        [k \in DOMAIN ts |-> Intersection(ts[k], o)])))

normal_at(object, world_point) ==
    Let(multiply_tuple(object.inverse_transform, world_point),
        LAMBDA local_point :
    Let(CASE object.kind = "Sphere" -> Sphere_normal_at(object, local_point)
          [] object.kind = "Plane" -> Plane_normal_at(local_point)
          [] object.kind = "Cube" -> Cube_normal_at(local_point),
        LAMBDA local_normal :
    Let(multiply_tuple(transpose(object.inverse_transform), local_normal),
        LAMBDA world_normal :
        normalize([world_normal EXCEPT !.w = Zero]))))

---------------------------------------------------------------------------
(* world.rs: World::intersect.                                             *)

World(light, objects) == [light |-> light, objects |-> objects]

\* The intersections of objects 1..n, appended object after object.
RECURSIVE all_intersections(_, _, _)
all_intersections(objects, n, ray) ==
    IF n = 0 THEN <<>>
    ELSE all_intersections(objects, n - 1, ray)
             \o Object_intersect(objects, n, ray)

\* partial_cmp(..).unwrap() panics when a NaN is compared, which a sort of
\* two or more elements does for every element.
sort_panics(xs) == Len(xs) >= 2 /\ \E k \in DOMAIN xs : IsNaN(xs[k].t)

\* World::intersect without the sort.
World_intersect_unsorted(w, ray) ==
    all_intersections(w.objects, Len(w.objects), ray)

World_intersect(w, ray) ==
    sort_by_t(all_intersections(w.objects, Len(w.objects), ray))

---------------------------------------------------------------------------
(* intersection.rs: refractive_indices_for, prepare_computations.          *)

\* containers.last(): the refractive index of the last container, or 1.0.
last_refractive(objects, containers) ==
    IF containers = <<>> THEN One
    ELSE get_material(objects[containers[Len(containers)].object]).refractive

\* containers.iter().position(..): the first container whose object
\* is_equal to the intersection's object; 0 when there is none.
container_position(objects, containers, intersection) ==
    Let({k \in DOMAIN containers :
            Object_is_equal(objects[containers[k].object],
                            objects[intersection.object])}, LAMBDA found :
        IF found = {} THEN 0
        ELSE CHOOSE k \in found : \A j \in found : k <= j)

\* The intersection is pushed whether or not its object is in the list.
toggle_container_push_only(objects, containers, intersection) ==
    Append(containers, intersection)

\* Remove the container found, or push the intersection.
toggle_container(objects, containers, intersection) ==
    Let(container_position(objects, containers, intersection), LAMBDA index :
        IF index = 0 THEN Append(containers, intersection)
        ELSE SubSeq(containers, 1, index - 1)
                 \o SubSeq(containers, index + 1, Len(containers)))

\* The loop from its i-th iteration on; (1.0, 1.0) when it runs out.
RECURSIVE refractive_loop(_, _, _, _, _)
refractive_loop(objects, self, all, i, containers) ==
    IF i > Len(all) THEN <<One, One>>
    ELSE Let(toggle_container(objects, containers, all[i]), LAMBDA toggled :
             IF REq(all[i].t, self.t)
             THEN <<last_refractive(objects, containers),
                    last_refractive(objects, toggled)>>
             ELSE refractive_loop(objects, self, all, i + 1, toggled))

refractive_indices_for(objects, self, all) ==
    refractive_loop(objects, self, all, 1, <<>>)

\* prepare_computations keeping the object's normal as it is.
prepare_computations_unflipped(objects, self, ray, all) ==
    Let(position_at(ray, self.t), LAMBDA pt :
    Let(negate(ray.direction), LAMBDA eye :
    Let(normal_at(objects[self.object], pt), LAMBDA normal0 :
    Let(RLt(dot(normal0, eye), Zero), LAMBDA is_inside :
    Let(normal0, LAMBDA normal :
    Let(refractive_indices_for(objects, self, all), LAMBDA n :
        [t |-> self.t,
         point |-> pt,
         eye |-> eye,
         normal |-> normal,
         reflected |-> reflect(ray.direction, normal),
         is_inside |-> is_inside,
         object |-> self.object,
         over_point |-> add(pt, multiply(normal, EPSILON)),
         under_point |-> subtract(pt, multiply(normal, EPSILON)),
         n1 |-> n[1],
         n2 |-> n[2]]))))))

prepare_computations(objects, self, ray, all) ==
    Let(position_at(ray, self.t), LAMBDA pt :
    Let(negate(ray.direction), LAMBDA eye :
    Let(normal_at(objects[self.object], pt), LAMBDA normal0 :
    Let(RLt(dot(normal0, eye), Zero), LAMBDA is_inside :
    Let(IF is_inside THEN negate(normal0) ELSE normal0, LAMBDA normal :
    Let(refractive_indices_for(objects, self, all), LAMBDA n :
        [t |-> self.t,
         point |-> pt,
         eye |-> eye,
         normal |-> normal,
         reflected |-> reflect(ray.direction, normal),
         is_inside |-> is_inside,
         object |-> self.object,
         over_point |-> add(pt, multiply(normal, EPSILON)),
         under_point |-> subtract(pt, multiply(normal, EPSILON)),
         n1 |-> n[1],
         n2 |-> n[2]]))))))

---------------------------------------------------------------------------
(* material.rs: Material::lighting.                                        *)

\* f64::powf for a whole exponent n >= 0, by squaring.
RECURSIVE powf(_, _)
powf(x, n) ==
    IF n = 0 THEN One
    ELSE Let(powf(x, n \div 2), LAMBDA h :
             IF n % 2 = 0 THEN RMul(h, h) ELSE RMul(RMul(h, h), x))

\* lighting without the test light_dot_normal < 0.
lighting_unsigned(material, light, pt, eye, normal, is_shadowed) ==
    Let(hadamard(material.color, light.intensity), LAMBDA effective_color :
    Let(Color_multiply(effective_color, material.ambient), LAMBDA ambient :
        IF is_shadowed THEN ambient
        ELSE
        Let(normalize(subtract(light.position, pt)), LAMBDA light_vector :
        Let(dot(light_vector, normal), LAMBDA light_dot_normal :
        Let(Color_multiply(effective_color,
                           RMul(material.diffuse, light_dot_normal)),
            LAMBDA diffuse :
        Let(reflect(negate(light_vector), normal), LAMBDA reflected :
        Let(dot(reflected, eye), LAMBDA reflected_dot_eye :
        Let(IF RLe(reflected_dot_eye, Zero) THEN BLACK
            ELSE Color_multiply(light.intensity,
                     RMul(material.specular,
                          powf(reflected_dot_eye, material.shininess.n))),
            LAMBDA specular :
            Color_add(Color_add(ambient, diffuse), specular)))))))))

\* The material's colour is a SolidColor.
lighting(material, light, pt, eye, normal, is_shadowed) ==
    Let(hadamard(material.color, light.intensity), LAMBDA effective_color :
    Let(Color_multiply(effective_color, material.ambient), LAMBDA ambient :
        IF is_shadowed THEN ambient
        ELSE
        Let(normalize(subtract(light.position, pt)), LAMBDA light_vector :
        Let(dot(light_vector, normal), LAMBDA light_dot_normal :
        Let(IF RLt(light_dot_normal, Zero) THEN BLACK
            ELSE Color_multiply(effective_color,
                                RMul(material.diffuse, light_dot_normal)),
            LAMBDA diffuse :
        Let(IF RLt(light_dot_normal, Zero) THEN BLACK
            ELSE Let(reflect(negate(light_vector), normal), LAMBDA reflected :
                 Let(dot(reflected, eye), LAMBDA reflected_dot_eye :
                     IF RLe(reflected_dot_eye, Zero) THEN BLACK
                     ELSE Color_multiply(light.intensity,
                              RMul(material.specular,
                                   powf(reflected_dot_eye,
                                        material.shininess.n))))),
            LAMBDA specular :
            Color_add(Color_add(ambient, diffuse), specular)))))))

---------------------------------------------------------------------------
(* world.rs: schlick_reflectance, World::is_shadowed.                      *)

MAX_RECURSIONS == 5

\* i32 powers of a float: x.powi(5).
powi5(x) == RMul(RMul(RMul(x, x), RMul(x, x)), x)

schlick_reflectance_helper(n1, n2, cosine_of_angle) ==
    Let(RDiv(RSub(n1, n2), RAdd(n1, n2)), LAMBDA ratio :
    Let(RMul(ratio, ratio), LAMBDA r0 :
        RAdd(r0, RMul(RSub(One, r0), powi5(RSub(One, cosine_of_angle))))))

\* schlick_reflectance without the branch for total internal reflection.
schlick_reflectance_no_tir(computations) ==
    Let(dot(computations.eye, computations.normal), LAMBDA cos_theta_1 :
    Let(RDiv(computations.n1, computations.n2), LAMBDA n :
    Let(RMul(RMul(n, n), RSub(One, RMul(cos_theta_1, cos_theta_1))),
        LAMBDA sin2 :
        IF RGt(computations.n1, computations.n2)
        THEN schlick_reflectance_helper(computations.n1, computations.n2,
                                        RSqrt(RSub(One, sin2)))
        ELSE schlick_reflectance_helper(computations.n1, computations.n2,
                                        cos_theta_1))))

\* cos_theta_2 is only read on the branch where sin2_theta_1 <= 1.
schlick_reflectance(computations) ==
    Let(dot(computations.eye, computations.normal), LAMBDA cos_theta_1 :
    Let(RDiv(computations.n1, computations.n2), LAMBDA n :
    Let(RMul(RMul(n, n), RSub(One, RMul(cos_theta_1, cos_theta_1))),
        LAMBDA sin2_theta_1 :
        IF RGt(computations.n1, computations.n2) /\ RGt(sin2_theta_1, One)
        THEN One
        ELSE IF RGt(computations.n1, computations.n2)
        THEN schlick_reflectance_helper(computations.n1, computations.n2,
                                        RSqrt(RSub(One, sin2_theta_1)))
        ELSE schlick_reflectance_helper(computations.n1, computations.n2,
                                        cos_theta_1))))

\* is_shadowed taking any hit for an occluder, however far.
is_shadowed_any_hit(w, pt) ==
    Let(subtract(w.light.position, pt), LAMBDA light_to_point :
    Let(normalize(light_to_point), LAMBDA direction :
    Let(Ray(pt, direction), LAMBDA ray :
        hit(World_intersect(w, ray)) # None)))

is_shadowed(w, pt) ==
    Let(subtract(w.light.position, pt), LAMBDA light_to_point :
    Let(magnitude(light_to_point), LAMBDA distance :
    Let(normalize(light_to_point), LAMBDA direction :
    Let(Ray(pt, direction), LAMBDA ray :
    Let(hit(World_intersect(w, ray)), LAMBDA h :
        IF h = None THEN FALSE ELSE RLt(h[1].t, distance))))))

---------------------------------------------------------------------------
(* world.rs: color_at, shade_hit, reflected_color, refracted_color.        *)
(*                                                                         *)
(* The recursion is run on an explicit stack.  A frame is one invocation   *)
(* of color_at together with the shade_hit it makes; pc is the position of *)
(* that invocation:                                                        *)
(*   "color_at"         entered, nothing computed yet                      *)
(*   "shade_hit"        the hit is prepared, shade_hit is entered          *)
(*   "reflected_color"  lighting is done, reflected_color is next          *)
(*   "reflected_wait"   inside reflected_color, waiting for color_at       *)
(*   "refracted_color"  reflected_color is done, refracted_color is next   *)
(*   "refracted_wait"   inside refracted_color, waiting for color_at       *)
(*   "combine"          both colours are known                             *)
(* A frame keeps what its invocation has computed and which calls it made. *)

Frame(ray, remaining, role) ==
    [ray |-> ray,
     remaining |-> remaining,
     role |-> role,
     pc |-> "color_at",
     all |-> <<>>,
     computations |-> None,
     is_shadowed |-> FALSE,
     surface_color |-> BLACK,
     reflected_call |-> None,
     reflected_raw |-> None,
     reflected_color |-> BLACK,
     refracted_call |-> None,
     refracted_raw |-> None,
     refracted_color |-> BLACK]

\* reflected_color passing its own budget on to color_at.
reflected_color_call_same_budget(objects, computations, remaining_reflections) ==
    IF remaining_reflections <= 0 THEN None
    ELSE IF REq(get_material(objects[computations.object]).reflective, Zero)
    THEN None
    ELSE Some([ray |-> Ray(computations.over_point, computations.reflected),
               remaining |-> remaining_reflections])

\* reflected_color without the guard on the budget.
reflected_color_call_unguarded(objects, computations, remaining_reflections) ==
    IF REq(get_material(objects[computations.object]).reflective, Zero)
    THEN None
    ELSE Some([ray |-> Ray(computations.over_point, computations.reflected),
               remaining |-> remaining_reflections - 1])

\* reflected_color up to its recursive call: None when it returns BLACK
\* at once, else the arguments of the color_at call it makes.
reflected_color_call(objects, computations, remaining_reflections) ==
    IF remaining_reflections <= 0 THEN None
    ELSE IF REq(get_material(objects[computations.object]).reflective, Zero)
    THEN None
    ELSE Some([ray |-> Ray(computations.over_point, computations.reflected),
               remaining |-> remaining_reflections - 1])

\* refracted_color without the test for total internal reflection: the
\* square root of a negative number is NaN, and so is the ray's direction.
refracted_color_call_no_tir(objects, computations, remaining_reflections) ==
    IF remaining_reflections <= 0 THEN None
    ELSE IF REq(get_material(objects[computations.object]).transparency, Zero)
    THEN None
    ELSE
    Let(RDiv(computations.n1, computations.n2), LAMBDA n_ratio :
    Let(dot(computations.eye, computations.normal), LAMBDA cos_theta_i :
    Let(RMul(RMul(n_ratio, n_ratio), RSub(One, RMul(cos_theta_i, cos_theta_i))),
        LAMBDA sin2_theta_t :
    Let(RSqrt(RSub(One, sin2_theta_t)), LAMBDA cos_theta_t :
    Let(subtract(multiply(computations.normal,
                          RSub(RMul(n_ratio, cos_theta_i), cos_theta_t)),
                 multiply(computations.eye, n_ratio)), LAMBDA direction :
        Some([ray |-> Ray(computations.under_point, direction),
              remaining |-> remaining_reflections - 1]))))))

\* refracted_color passing its own budget on to color_at.
refracted_color_call_same_budget(objects, computations, remaining_reflections) ==
    IF remaining_reflections <= 0 THEN None
    ELSE IF REq(get_material(objects[computations.object]).transparency, Zero)
    THEN None
    ELSE
    Let(RDiv(computations.n1, computations.n2), LAMBDA n_ratio :
    Let(dot(computations.eye, computations.normal), LAMBDA cos_theta_i :
    Let(RMul(RMul(n_ratio, n_ratio), RSub(One, RMul(cos_theta_i, cos_theta_i))),
        LAMBDA sin2_theta_t :
        IF RGt(sin2_theta_t, One) THEN None
        ELSE
        Let(RSqrt(RSub(One, sin2_theta_t)), LAMBDA cos_theta_t :
        Let(subtract(multiply(computations.normal,
                              RSub(RMul(n_ratio, cos_theta_i), cos_theta_t)),
                     multiply(computations.eye, n_ratio)), LAMBDA direction :
            Some([ray |-> Ray(computations.under_point, direction),
                  remaining |-> remaining_reflections]))))))

\* refracted_color up to its recursive call, likewise.
refracted_color_call(objects, computations, remaining_reflections) ==
    IF remaining_reflections <= 0 THEN None
    ELSE IF REq(get_material(objects[computations.object]).transparency, Zero)
    THEN None
    ELSE
    Let(RDiv(computations.n1, computations.n2), LAMBDA n_ratio :
    Let(dot(computations.eye, computations.normal), LAMBDA cos_theta_i :
    Let(RMul(RMul(n_ratio, n_ratio), RSub(One, RMul(cos_theta_i, cos_theta_i))),
        LAMBDA sin2_theta_t :
        IF RGt(sin2_theta_t, One) THEN None
        ELSE
        Let(RSqrt(RSub(One, sin2_theta_t)), LAMBDA cos_theta_t :
        Let(subtract(multiply(computations.normal,
                              RSub(RMul(n_ratio, cos_theta_i), cos_theta_t)),
                     multiply(computations.eye, n_ratio)), LAMBDA direction :
            Some([ray |-> Ray(computations.under_point, direction),
                  remaining |-> remaining_reflections - 1]))))))

\* shade_hit weighting by the Schlick value as soon as the material is
\* reflective.
shade_hit_color_reflective(objects, computations, surface, reflected, refracted) ==
    Let(get_material(objects[computations.object]), LAMBDA material :
        IF RGt(material.reflective, Zero)
        THEN Let(schlick_reflectance(computations), LAMBDA reflectance :
                 Color_add(
                     Color_add(surface, Color_multiply(reflected, reflectance)),
                     Color_multiply(refracted, RSub(One, reflectance))))
        ELSE Color_add(Color_add(surface, reflected), refracted))

\* The last expression of shade_hit.
shade_hit_color(objects, computations, surface, reflected, refracted) ==
    Let(get_material(objects[computations.object]), LAMBDA material :
        IF RGt(material.reflective, Zero) /\ RGt(material.transparency, Zero)
        THEN Let(schlick_reflectance(computations), LAMBDA reflectance :
                 Color_add(
                     Color_add(surface, Color_multiply(reflected, reflectance)),
                     Color_multiply(refracted, RSub(One, reflectance))))
        ELSE Color_add(Color_add(surface, reflected), refracted))

\* The list with the intersections behind the ray's origin left out.
color_at_forward_list(w, ray) ==
    SelectSeq(World_intersect(w, ray), LAMBDA i : RGe(i.t, Zero))

\* The intersection color_at prepares, and the list it passes along.
color_at_hit(w, ray) == hit(World_intersect(w, ray))
color_at_list(w, ray) == World_intersect(w, ray)

Top == stack[Len(stack)]
Below == SubSeq(stack, 1, Len(stack) - 1)

\* The record of a completed color_at call.
Returned(f, shaded, value) ==
    [fn |-> "color_at", frame |-> f, shaded |-> shaded, value |-> value]

\* The caller's frame when the color_at call of frame f returns value:
\* reflected_color and refracted_color scale the colour they get back.
Resumed(caller, f, value) ==
    Let(get_material(world.objects[caller.computations[1].object]),
        LAMBDA material :
        IF f.role = "reflected"
        THEN [caller EXCEPT
                 !.reflected_raw = Some(value),
                 !.reflected_color = Color_multiply(value, material.reflective),
                 !.pc = "refracted_color"]
        ELSE [caller EXCEPT
                 !.refracted_raw = Some(value),
                 !.refracted_color =
                     Color_multiply(value, material.transparency),
                 !.pc = "combine"])

\* A return of color_at that leaves the light of the world switched off.
Return_switching_light_off(f, shaded, value) ==
    /\ ret' = Returned(f, shaded, value)
    /\ IF Below = <<>>
       THEN /\ stack' = <<>>
            /\ result' = Some(value)
       ELSE /\ stack' = [Below EXCEPT ![Len(Below)] = Resumed(@, f, value)]
            /\ result' = result
    /\ world' = [world EXCEPT !.light.intensity = BLACK]
    /\ call' = call

\* color_at returns value: the frame is popped and the caller goes on.
Return(f, shaded, value) ==
    /\ ret' = Returned(f, shaded, value)
    /\ IF Below = <<>>
       THEN /\ stack' = <<>>
            /\ result' = Some(value)
       ELSE /\ stack' = [Below EXCEPT ![Len(Below)] = Resumed(@, f, value)]
            /\ result' = result
    /\ UNCHANGED <<world, call>>

\* The recursion depth the model follows; the code's own bound on the
\* depth is the budget, which never exceeds MAX_RECURSIONS here.
MaxStack == MAX_RECURSIONS + 2

\* color_at, no hit: BLACK.
ColorAtMiss ==
    /\ stack # <<>>
    /\ Top.pc = "color_at"
    /\ color_at_hit(world, Top.ray) = None
    /\ Return(Top, FALSE, BLACK)

\* color_at, a hit: prepare_computations and enter shade_hit.
ColorAtHit ==
    /\ stack # <<>>
    /\ Top.pc = "color_at"
    /\ \E h \in {color_at_hit(world, Top.ray)},
          xs \in {color_at_list(world, Top.ray)} :
          /\ h # None
          /\ stack' = [stack EXCEPT ![Len(stack)] =
                          [Top EXCEPT
                              !.all = xs,
                              !.computations =
                                  Some(prepare_computations(
                                           world.objects, h[1], Top.ray, xs)),
                              !.pc = "shade_hit"]]
    /\ UNCHANGED <<world, result, call, ret>>

\* shade_hit: is_shadowed(over_point), then Material::lighting.
ShadeHitLighting ==
    /\ stack # <<>>
    /\ Top.pc = "shade_hit"
    /\ \E c \in {Top.computations[1]} :
       \E shadowed \in {is_shadowed(world, c.over_point)} :
          stack' = [stack EXCEPT ![Len(stack)] =
                       [Top EXCEPT
                           !.is_shadowed = shadowed,
                           !.surface_color =
                               lighting(get_material(world.objects[c.object]),
                                        world.light, c.point, c.eye, c.normal,
                                        shadowed),
                           !.pc = "reflected_color"]]
    /\ UNCHANGED <<world, result, call, ret>>

\* reflected_color returns BLACK without recursing.
ReflectedColorBlack ==
    /\ stack # <<>>
    /\ Top.pc = "reflected_color"
    /\ reflected_color_call(world.objects, Top.computations[1],
                            Top.remaining) = None
    /\ stack' = [stack EXCEPT ![Len(stack)] =
                    [Top EXCEPT !.reflected_color = BLACK,
                                !.pc = "refracted_color"]]
    /\ UNCHANGED <<world, result, call, ret>>

\* reflected_color calls color_at.
ReflectedColorCall ==
    /\ stack # <<>>
    /\ Top.pc = "reflected_color"
    /\ Len(stack) < MaxStack
    /\ \E c \in {reflected_color_call(world.objects, Top.computations[1],
                                       Top.remaining)} :
           /\ c # None
           /\ stack' = Append(
                  [stack EXCEPT ![Len(stack)] =
                      [Top EXCEPT !.reflected_call = c,
                                  !.pc = "reflected_wait"]],
                  Frame(c[1].ray, c[1].remaining, "reflected"))
    /\ UNCHANGED <<world, result, call, ret>>

\* refracted_color returns BLACK without recursing.
RefractedColorBlack ==
    /\ stack # <<>>
    /\ Top.pc = "refracted_color"
    /\ refracted_color_call(world.objects, Top.computations[1],
                            Top.remaining) = None
    /\ stack' = [stack EXCEPT ![Len(stack)] =
                    [Top EXCEPT !.refracted_color = BLACK,
                                !.pc = "combine"]]
    /\ UNCHANGED <<world, result, call, ret>>

\* refracted_color calls color_at.
RefractedColorCall ==
    /\ stack # <<>>
    /\ Top.pc = "refracted_color"
    /\ Len(stack) < MaxStack
    /\ \E c \in {refracted_color_call(world.objects, Top.computations[1],
                                       Top.remaining)} :
           /\ c # None
           /\ stack' = Append(
                  [stack EXCEPT ![Len(stack)] =
                      [Top EXCEPT !.refracted_call = c,
                                  !.pc = "refracted_wait"]],
                  Frame(c[1].ray, c[1].remaining, "refracted"))
    /\ UNCHANGED <<world, result, call, ret>>

\* shade_hit combines the three colours; color_at returns the result.
ShadeHitReturn ==
    /\ stack # <<>>
    /\ Top.pc = "combine"
    /\ Top.role # "direct"
    /\ Return(Top, TRUE,
              shade_hit_color(world.objects, Top.computations[1],
                              Top.surface_color, Top.reflected_color,
                              Top.refracted_color))

---------------------------------------------------------------------------
(* The worlds and rays color_at is called on.                              *)

MaxObjects == 2
MaxDepth == 2

glass(refractive) ==
    [DEFAULT_MATERIAL EXCEPT !.transparency = One, !.refractive = refractive]

\* test_color_at_terminates_safely: two fully reflective planes, the light
\* between them, a ray bouncing from one to the other.
MirrorMaterial ==
    [DEFAULT_MATERIAL EXCEPT !.diffuse = R(7, 10), !.specular = R(2, 10),
                             !.reflective = One]
LowerPlane == Plane(translation(I(-1)), MirrorMaterial)
UpperPlane == Plane(translation(One), MirrorMaterial)
MirrorLight == Light(point(Zero), WHITE)
MirrorWorld == World(MirrorLight, <<LowerPlane, UpperPlane>>)
MirrorRay == Ray(point(Zero), vector(I(-1)))

\* A transparent cube spanning [2, 4], a cube that is both reflective and
\* transparent spanning [-7/2, -5/2], and an opaque cube spanning [5, 7].
GlassCube == Cube(translation(I(3)), glass(Two))
ShinyGlassCube ==
    Cube(multiply_matrix(translation(I(-3)), scaling(R(1, 2))),
         [DEFAULT_MATERIAL EXCEPT !.color = Color(One, R(1, 2), Zero),
                                  !.reflective = R(1, 2),
                                  !.transparency = R(1, 2),
                                  !.refractive = Two])
MatteCube == Cube(translation(I(6)), DEFAULT_MATERIAL)

Catalogue == {LowerPlane, UpperPlane, GlassCube, ShinyGlassCube, MatteCube}

Worlds ==
    {World(MirrorLight, objects) : objects \in SeqsUpTo(Catalogue, MaxObjects)}

Rays == {MirrorRay, Ray(point(Zero), vector(One)),
         Ray(point(I(-5)), vector(One)), Ray(point(I(8)), vector(I(-1)))}

ColorAtCalls ==
    {[fn |-> "color_at", world |-> w, ray |-> r, remaining |-> d] :
        w \in Worlds, r \in Rays, d \in 0..MaxDepth}
    \cup {[fn |-> "color_at", world |-> MirrorWorld, ray |-> MirrorRay,
           remaining |-> MAX_RECURSIONS]}

Init ==
    /\ \E c \in ColorAtCalls :
          /\ world = c.world
          /\ call = [fn |-> "color_at", ray |-> c.ray,
                     remaining |-> c.remaining]
          /\ stack = <<Frame(c.ray, c.remaining, "top")>>
    /\ result = None
    /\ ret = NoRet

Next ==
    \/ ColorAtMiss
    \/ ColorAtHit
    \/ ShadeHitLighting
    \/ ReflectedColorBlack
    \/ ReflectedColorCall
    \/ RefractedColorBlack
    \/ RefractedColorCall
    \/ ShadeHitReturn

Spec == Init /\ [][Next]_vars

Done == stack = <<>> /\ result # None

\* The frames of the calls in progress, and the frame of the call that
\* returned last.
Frames == {stack[i] : i \in DOMAIN stack}
Shaded == {f \in Frames : f.pc # "color_at"}
    \cup (IF ret.fn = "color_at" /\ ret.shaded THEN {ret.frame} ELSE {})

---------------------------------------------------------------------------
(* Termination of color_at.                                                *)

\* The steps a color_at call with budget d takes at most: five of its own
\* and, while d > 0, two recursive calls with budget d - 1.
RECURSIVE Work(_)
Work(d) == IF d <= 0 THEN 5 ELSE 5 + 2 * Work(d - 1)

ChildWork(d) == IF d <= 0 THEN 0 ELSE Work(d - 1)

\* The steps a frame has left, the calls above it on the stack not counted.
FrameWork(f) ==
    CASE f.pc = "color_at" -> Work(f.remaining)
      [] f.pc = "shade_hit" -> Work(f.remaining) - 1
      [] f.pc = "reflected_color" -> 3 + 2 * ChildWork(f.remaining)
      [] f.pc = "reflected_wait" -> 2 + ChildWork(f.remaining)
      [] f.pc = "refracted_color" -> 2 + ChildWork(f.remaining)
      [] f.pc = "refracted_wait" -> 1
      [] f.pc = "combine" -> 1

RECURSIVE StackWork(_)
StackWork(frames) ==
    IF frames = <<>> THEN 0
    ELSE FrameWork(frames[Len(frames)])
             + StackWork(SubSeq(frames, 1, Len(frames) - 1))

\* A call in progress has a step to take: the top frame is not waiting,
\* and a recursive call it is about to make fits the stack of the model.
Runnable ==
    stack # <<>> =>
        /\ Top.pc \in {"color_at", "shade_hit", "reflected_color",
                       "refracted_color", "combine"}
        /\ Top.pc = "reflected_color" =>
               \/ Len(stack) < MaxStack
               \/ reflected_color_call(world.objects, Top.computations[1],
                                       Top.remaining) = None
        /\ Top.pc = "refracted_color" =>
               \/ Len(stack) < MaxStack
               \/ refracted_color_call(world.objects, Top.computations[1],
                                       Top.remaining) = None

\* C3: color_at(ray, d) terminates for every world and budget d, the two
\* facing mirrors included, and the budget alone bounds it: a call in
\* progress always has a step to take, and every step strictly decreases
\* the work left, a number computed from the budgets and positions of the
\* frames only (at most Work(d) at the start), never from the geometry.
C3_ColorAtTerminates ==
    /\ Runnable
    /\ [][/\ StackWork(stack') < StackWork(stack)
          /\ StackWork(stack) <= Work(call.remaining)
          /\ Runnable']_vars

\* The call on the facing mirrors with budget MAX_RECURSIONS has returned,
\* after a last reflected ray that still hit a mirror.
C3_MirrorsReturn ==
    /\ Done
    /\ world = MirrorWorld
    /\ call.ray = MirrorRay
    /\ call.remaining = MAX_RECURSIONS
    /\ ret.shaded

---------------------------------------------------------------------------
(* color_at, reflected_color, shade_hit.                                   *)

\* The intersections the objects of the world return for the ray.
ObjectHits(w, ray) ==
    UNION {{Object_intersect(w.objects, o, ray)[k] :
               k \in DOMAIN Object_intersect(w.objects, o, ray)} :
           o \in DOMAIN w.objects}

ForwardHits(w, ray) == {x \in ObjectHits(w, ray) : RGe(x.t, Zero)}

\* C4: color_at returns black, without entering shade_hit and without a
\* recursive call, when no intersection of the ray has t >= 0 (none at all
\* included); otherwise it shades an intersection with the smallest
\* t >= 0, and prepare_computations receives the complete sorted list (so
\* n1 and n2 are those of the complete list).
C4_ColorAtShadesNearestHit ==
    /\ \A f \in Shaded :
          LET xs == ObjectHits(world, f.ray)
              forward == ForwardHits(world, f.ray)
              c == f.computations[1]
          IN  /\ \E h \in forward :
                    /\ \A x \in forward : RLe(h.t, x.t)
                    /\ c.t = h.t
                    /\ c.object = h.object
              /\ {f.all[k] : k \in DOMAIN f.all} = xs
              /\ Len(f.all) = Len(all_intersections(world.objects,
                                                    Len(world.objects), f.ray))
              /\ \A k \in 1..(Len(f.all) - 1) : RLe(f.all[k].t, f.all[k + 1].t)
              /\ <<c.n1, c.n2>> =
                     refractive_indices_for(world.objects,
                         Intersection(c.t, c.object), f.all)
    /\ (ret.fn = "color_at" /\ ~ret.shaded) =>
          /\ ForwardHits(world, ret.frame.ray) = {}
          /\ ret.value = BLACK
          /\ ret.frame.pc = "color_at"
          /\ ret.frame.computations = None
          /\ ret.frame.reflected_call = None
          /\ ret.frame.refracted_call = None

\* A ray whose only intersections lie behind its origin: black, unshaded.
C4_AllBehind ==
    /\ ret.fn = "color_at"
    /\ ~ret.shaded
    /\ ret.value = BLACK
    /\ ObjectHits(world, ret.frame.ray) # {}
    /\ ForwardHits(world, ret.frame.ray) = {}

\* The frames that have been through reflected_color's first step.
PastReflected ==
    {f \in Shaded : f.pc \in {"reflected_wait", "refracted_color",
                              "refracted_wait", "combine"}}

\* C5: reflected_color returns black with no recursive color_at call when
\* the budget is 0 or the material's reflective is 0; otherwise it calls
\* color_at once, on the ray from over_point along the reflected vector
\* with budget - 1, and returns what that call returned times reflective.
C5_ReflectedColor ==
    /\ \A f \in PastReflected :
          LET c == f.computations[1]
              material == get_material(world.objects[c.object])
          IN  IF f.remaining = 0 \/ REq(material.reflective, Zero)
              THEN /\ f.reflected_call = None
                   /\ f.reflected_raw = None
                   /\ f.reflected_color = BLACK
              ELSE /\ f.reflected_call =
                          Some([ray |-> Ray(c.over_point, c.reflected),
                                remaining |-> f.remaining - 1])
                   /\ f.pc # "reflected_wait" =>
                          /\ f.reflected_raw # None
                          /\ f.reflected_color =
                                 Color_multiply(f.reflected_raw[1],
                                                material.reflective)
    /\ \A i \in DOMAIN stack :
          stack[i].pc = "reflected_wait" =>
              /\ i < Len(stack)
              /\ stack[i + 1].role = "reflected"
              /\ stack[i + 1].ray = stack[i].reflected_call[1].ray
              /\ stack[i + 1].remaining = stack[i].reflected_call[1].remaining
    /\ (stack # <<>> /\ Top.pc = "refracted_color"
            /\ Top.reflected_call # None) =>
          /\ ret.fn = "color_at"
          /\ ret.frame.role = "reflected"
          /\ ret.frame.ray = Top.reflected_call[1].ray
          /\ ret.frame.remaining = Top.reflected_call[1].remaining
          /\ Top.reflected_raw = Some(ret.value)

\* A reflected colour that is neither black nor the colour color_at
\* returned: the reflective coefficient 1/2 has scaled it.
C5_ScaledReflection ==
    /\ stack # <<>>
    /\ Top.pc = "refracted_color"
    /\ Top.reflected_raw # None
    /\ Top.reflected_color # BLACK
    /\ Top.reflected_color # Top.reflected_raw[1]

\* C7: shade_hit returns surface + reflectance * reflected
\* + (1 - reflectance) * refracted, reflectance being the Schlick value,
\* exactly when reflective > 0 and transparency > 0; otherwise it returns
\* surface + reflected + refracted.
C7_ShadeHitBlend ==
    (ret.fn = "color_at" /\ ret.shaded) =>
        LET f == ret.frame
            c == f.computations[1]
            material == get_material(world.objects[c.object])
            reflectance == schlick_reflectance(c)
            blend ==
                Color_add(
                    Color_add(f.surface_color,
                              Color_multiply(f.reflected_color, reflectance)),
                    Color_multiply(f.refracted_color,
                                   RSub(One, reflectance)))
            sum == Color_add(Color_add(f.surface_color, f.reflected_color),
                             f.refracted_color)
        IN  IF RGt(material.reflective, Zero)
                   /\ RGt(material.transparency, Zero)
            THEN ret.value = blend
            ELSE ret.value = sum

\* A hit on the reflective and transparent cube with both a reflected and
\* a refracted colour, where the blend differs from the plain sum.
C7_BlendDiffers ==
    /\ ret.fn = "color_at"
    /\ ret.shaded
    /\ world.objects[ret.frame.computations[1].object] = ShinyGlassCube
    /\ ret.frame.reflected_color # BLACK
    /\ ret.frame.refracted_color # BLACK
    /\ ret.value # Color_add(Color_add(ret.frame.surface_color,
                                       ret.frame.reflected_color),
                             ret.frame.refracted_color)

---------------------------------------------------------------------------
(* Direct calls of prepare_computations on the k-th intersection of the    *)
(* list World::intersect returns for a ray.                                *)

MaxRefrObjects == 3

\* test_prepare_computations_n1_n2: three nested spheres.
SphereA == Sphere(scaling(Two), [DEFAULT_MATERIAL EXCEPT !.refractive = R(3, 2)])
SphereB == Sphere(translation(R(-1, 4)), [DEFAULT_MATERIAL EXCEPT !.refractive = Two])
SphereC == Sphere(translation(R(1, 4)), [DEFAULT_MATERIAL EXCEPT !.refractive = R(5, 2)])

\* A glass cube spanning [-1, 1], a glass sphere inscribed in it and a glass
\* plane through its lower face: their surfaces coincide on the axis.
RefrCube == Cube(IDENTITY, glass(Two))
RefrSphere == Sphere(IDENTITY, glass(I(3)))
RefrPlane == Plane(translation(I(-1)), glass(R(3, 2)))

RefrCatalogue == {SphereA, SphereB, SphereC, RefrCube, RefrSphere, RefrPlane}

RefrLight == Light(point(I(10)), WHITE)

RefrWorlds ==
    {World(RefrLight, objects) :
        objects \in SeqsUpTo(RefrCatalogue, MaxRefrObjects) \ {<<>>}}

RefrRays == {Ray(point(I(-4)), vector(One)), Ray(point(I(4)), vector(I(-1))),
             Ray(point(Zero), vector(One))}

InitRefr ==
    /\ world \in RefrWorlds
    /\ stack = <<>>
    /\ result = None
    /\ \E ray \in RefrRays :
          LET xs == World_intersect(world, ray)
          IN  \E k \in DOMAIN xs :
                 call = [fn |-> "prepare_computations", ray |-> ray,
                         all_intersections |-> xs, k |-> k]
    /\ ret = NoRet

CallPrepareComputations ==
    /\ call.fn = "prepare_computations"
    /\ ret.fn = "none"
    /\ ret' = [fn |-> "prepare_computations",
               value |-> prepare_computations(world.objects,
                             call.all_intersections[call.k], call.ray,
                             call.all_intersections)]
    /\ UNCHANGED <<world, stack, result, call>>

NextRefr == CallPrepareComputations

SpecRefr == InitRefr /\ [][NextRefr]_vars

\* The containment list after toggling the first n intersections of the list.
RECURSIVE containment_list(_, _, _)
containment_list(objects, all, n) ==
    IF n = 0 THEN <<>>
    ELSE toggle_container(objects, containment_list(objects, all, n - 1),
                          all[n])

\* C2: prepare_computations on the k-th intersection of a ray's sorted
\* list yields n1 = the refractive index of the last object of the
\* containment list built by toggling the intersections before the k-th
\* (1.0 if it is empty) and n2 = the same after toggling the k-th as well.
\* The code finds "the k-th" by comparing t, so it stops at the first
\* intersection that shares the k-th one's t: where two surfaces coincide
\* the statement fails for the later one.
C2_IndicesByPosition ==
    ret.fn = "prepare_computations" =>
        LET xs == call.all_intersections
            before == containment_list(world.objects, xs, call.k - 1)
            after == containment_list(world.objects, xs, call.k)
        IN  /\ ret.value.n1 = last_refractive(world.objects, before)
            /\ ret.value.n2 = last_refractive(world.objects, after)

\* The nested spheres crossed in the order A, B, C, B, C, A: the third
\* crossing has (n1, n2) = (2.0, 2.5), the fourth (2.5, 2.5).
C2_NestedSpheres ==
    /\ ret.fn = "prepare_computations"
    /\ world.objects = <<SphereA, SphereB, SphereC>>
    /\ call.ray = Ray(point(I(-4)), vector(One))
    /\ [k \in 1..6 |-> call.all_intersections[k].object] = <<1, 2, 3, 2, 3, 1>>
    /\ \/ call.k = 3 /\ ret.value.n1 = Two /\ ret.value.n2 = R(5, 2)
       \/ call.k = 4 /\ ret.value.n1 = R(5, 2) /\ ret.value.n2 = R(5, 2)

---------------------------------------------------------------------------
(* Direct calls of refracted_color, the way the tests make them: on the    *)
(* computations prepared for the k-th intersection of a ray, with a budget.*)
(* The color_at call refracted_color makes runs on the stack as above.     *)

\* A ray of half speed from inside GlassCube: eye . normal is 1/2 where it
\* leaves the cube, and (2/1)^2 * (1 - 1/4) = 3 > 1.
SlowRay == Ray(point(I(3)), vector(R(1, 2)))

\* The worlds in which SlowRay starts inside glass.
SlowWorlds ==
    {w \in Worlds : \E o \in DOMAIN w.objects :
        /\ w.objects[o] = GlassCube
        /\ \A p \in DOMAIN w.objects : p # o => w.objects[p] # GlassCube}

\* The position in xs of the intersection hit returns.
hit_index(xs) == CHOOSE k \in DOMAIN xs : Some(xs[k]) = hit(xs)

RefractedColorCalls ==
    {c \in [world : Worlds, ray : Rays, k : 1..(2 * MaxObjects),
            remaining : 0..MaxDepth] :
        c.k <= Len(World_intersect(c.world, c.ray))}
    \cup {[world |-> w, ray |-> SlowRay,
           k |-> hit_index(World_intersect(w, SlowRay)), remaining |-> d] :
             w \in SlowWorlds, d \in 0..MaxDepth}

\* The frame of a direct call: computations as the caller prepared them.
DirectFrame(w, ray, k, remaining) ==
    Let(World_intersect(w, ray), LAMBDA xs :
        [Frame(ray, remaining, "direct") EXCEPT
            !.all = xs,
            !.computations =
                Some(prepare_computations(w.objects, xs[k], ray, xs)),
            !.pc = "refracted_color"])

InitRefracted ==
    /\ \E c \in RefractedColorCalls :
          /\ world = c.world
          /\ stack = <<DirectFrame(c.world, c.ray, c.k, c.remaining)>>
          /\ call = [fn |-> "refracted_color",
                     computations |-> stack[1].computations[1],
                     remaining |-> c.remaining]
    /\ result = None
    /\ ret = NoRet

\* refracted_color returns to its caller.
RefractedColorReturn ==
    /\ stack # <<>>
    /\ Top.pc = "combine"
    /\ Top.role = "direct"
    /\ call.fn = "refracted_color"
    /\ stack' = <<>>
    /\ result' = Some(Top.refracted_color)
    /\ ret' = [fn |-> "refracted_color", frame |-> Top,
               value |-> Top.refracted_color, callee |-> ret]
    /\ UNCHANGED <<world, call>>

NextRefracted ==
    \/ Next
    \/ RefractedColorReturn

SpecRefracted == InitRefracted /\ [][NextRefracted]_vars

\* (n1/n2)^2 * (1 - cos^2(theta_i)) > 1, with cos(theta_i) = eye . normal.
TotalInternalReflection(c) ==
    RGt(RMul(RMul(RDiv(c.n1, c.n2), RDiv(c.n1, c.n2)),
             RSub(One, RMul(dot(c.eye, c.normal), dot(c.eye, c.normal)))),
        One)

\* The frame of the direct call, while it runs and once it has returned.
DirectFrames ==
    IF stack # <<>> THEN {stack[1]}
    ELSE IF ret.fn = "refracted_color" THEN {ret.frame} ELSE {}

\* The record of the color_at call that returned last, if any did.
LastColorAt == IF ret.fn = "refracted_color" THEN ret.callee ELSE ret

\* C6: refracted_color returns black without calling color_at when the
\* budget is 0, the transparency is 0, or (n1/n2)^2 * (1 - cos^2) > 1;
\* otherwise it calls color_at exactly once, on a ray from under_point with
\* budget - 1, and returns what that call returned times the transparency.
C6_RefractedColor ==
    \A f \in DirectFrames :
        LET c == call.computations
            transparency == get_material(world.objects[c.object]).transparency
            black == \/ call.remaining = 0
                     \/ REq(transparency, Zero)
                     \/ TotalInternalReflection(c)
        IN  /\ f.computations = Some(c)
            /\ f.reflected_call = None
            /\ \A i \in DOMAIN stack :
                   (i > 1 /\ stack[i].role = "refracted"
                          /\ stack[i - 1].role = "direct") =>
                       /\ i = 2
                       /\ f.pc = "refracted_wait"
                       /\ ~black
                       /\ stack[2].ray = f.refracted_call[1].ray
                       /\ stack[2].remaining = f.refracted_call[1].remaining
            /\ (Len(stack) >= 2 => stack[2].role = "refracted")
            /\ f.pc = "refracted_wait" => Len(stack) >= 2
            /\ (f.pc \in {"refracted_wait", "combine"} /\ black) =>
                   /\ f.pc = "combine"
                   /\ f.refracted_call = None
                   /\ f.refracted_raw = None
                   /\ f.refracted_color = BLACK
                   /\ LastColorAt.fn = "none"
            /\ (f.pc \in {"refracted_wait", "combine"} /\ ~black) =>
                   /\ f.refracted_call # None
                   /\ f.refracted_call[1].ray.origin = c.under_point
                   /\ f.refracted_call[1].remaining = call.remaining - 1
                   /\ f.pc = "combine" =>
                          /\ LastColorAt.fn = "color_at"
                          /\ LastColorAt.frame.role = "refracted"
                          /\ LastColorAt.frame.ray = f.refracted_call[1].ray
                          /\ LastColorAt.frame.remaining = call.remaining - 1
                          /\ f.refracted_raw = Some(LastColorAt.value)
                          /\ f.refracted_color =
                                 Color_multiply(LastColorAt.value, transparency)
            /\ stack = <<>> =>
                   /\ result = Some(f.refracted_color)
                   /\ f.pc = "combine"

\* Total internal reflection with budget and transparency both positive:
\* the call has returned black and color_at was never called.
C6_TotalInternalReflection ==
    /\ stack = <<>>
    /\ call.fn = "refracted_color"
    /\ result = Some(BLACK)
    /\ call.remaining > 0
    /\ RGt(get_material(world.objects[call.computations.object]).transparency,
           Zero)
    /\ TotalInternalReflection(call.computations)
    /\ LastColorAt.fn = "none"

---------------------------------------------------------------------------
(* Direct calls of World::is_shadowed on a point other than the light's    *)
(* position.                                                               *)

ShadowLights == {MirrorLight, Light(point(One), WHITE)}

ShadowWorlds == {World(l, w.objects) : w \in Worlds, l \in ShadowLights}

\* Points in front of, between, on, inside and behind the objects.
ShadowPoints ==
    {point(I(-5)), point(I(-2)), point(R(-1, 2)), point(Zero), point(One),
     point(Two), point(I(3)), point(R(9, 2)), point(I(8))}

InitShadow ==
    /\ world \in ShadowWorlds
    /\ stack = <<>>
    /\ result = None
    /\ \E pt \in ShadowPoints :
          /\ pt # world.light.position
          /\ call = [fn |-> "is_shadowed", point |-> pt]
    /\ ret = NoRet

CallIsShadowed ==
    /\ call.fn = "is_shadowed"
    /\ ret.fn = "none"
    /\ ret' = [fn |-> "is_shadowed", value |-> is_shadowed(world, call.point)]
    /\ UNCHANGED <<world, stack, result, call>>

NextShadow == CallIsShadowed

SpecShadow == InitShadow /\ [][NextShadow]_vars

\* The ray from the point of the call toward the light, and the distance
\* between the two.
TowardLight ==
    Ray(call.point, normalize(subtract(world.light.position, call.point)))

LightDistance == magnitude(subtract(world.light.position, call.point))

\* C8: is_shadowed(point) is true exactly when the nearest intersection
\* with t >= 0 on the ray from the point toward the light has t < the
\* distance to the light; so it is false when the ray meets nothing, when
\* every object lies beyond the light, and when every object lies behind
\* the point.
C8_IsShadowed ==
    ret.fn = "is_shadowed" =>
        LET forward == ForwardHits(world, TowardLight)
            nearest == {h \in forward : \A x \in forward : RLe(h.t, x.t)}
        IN  /\ ret.value = (\E h \in nearest : RLt(h.t, LightDistance))
            /\ ObjectHits(world, TowardLight) = {} => ret.value = FALSE
            /\ (\A x \in ObjectHits(world, TowardLight) :
                    RLt(x.t, Zero) \/ RGt(x.t, LightDistance)) =>
                   ret.value = FALSE

\* The ray toward the light meets an object, but only beyond the light (one
\* of them exactly at the light's distance, or farther): not shadowed.
C8_ObjectBeyondLight ==
    /\ ret.fn = "is_shadowed"
    /\ ret.value = FALSE
    /\ ForwardHits(world, TowardLight) # {}
    /\ \A x \in ForwardHits(world, TowardLight) : RGe(x.t, LightDistance)

---------------------------------------------------------------------------
(* Direct calls of World::intersect.                                       *)

IntersectCalls ==
    {[world |-> w, ray |-> r] : w \in RefrWorlds, r \in RefrRays}
    \cup {[world |-> w, ray |-> r] : w \in Worlds, r \in Rays}

InitIntersect ==
    /\ \E c \in IntersectCalls :
          /\ world = c.world
          /\ call = [fn |-> "intersect", ray |-> c.ray]
    /\ stack = <<>>
    /\ result = None
    /\ ret = NoRet

CallIntersect ==
    /\ call.fn = "intersect"
    /\ ret.fn = "none"
    /\ ret' = [fn |-> "intersect", value |-> World_intersect(world, call.ray)]
    /\ UNCHANGED <<world, stack, result, call>>

NextIntersect == CallIntersect

SpecIntersect == InitIntersect /\ [][NextIntersect]_vars

\* How many times x occurs in the list xs.
Occurrences(xs, x) == Cardinality({k \in DOMAIN xs : xs[k] = x})

\* How many times the objects of the world, each asked by itself, return x.
ObjectOccurrences(w, ray, x) ==
    Cardinality(UNION {{<<o, k>> :
                           k \in {j \in DOMAIN Object_intersect(w.objects, o, ray) :
                                     Object_intersect(w.objects, o, ray)[j] = x}} :
                       o \in DOMAIN w.objects})

\* C9: World::intersect returns every intersection exactly as many times
\* as the objects of the world return it for the ray, and nothing else, in
\* ascending order of t, in whatever order the world lists its objects.
C9_IntersectIsSortedUnion ==
    ret.fn = "intersect" =>
        LET xs == ret.value
        IN  /\ \A k \in 1..(Len(xs) - 1) : RLe(xs[k].t, xs[k + 1].t)
            /\ \A x \in {xs[k] : k \in DOMAIN xs} \cup ObjectHits(world, call.ray) :
                   Occurrences(xs, x) = ObjectOccurrences(world, call.ray, x)

\* Several objects whose intersections interleave: the list returned is
\* not the lists of the objects one after the other.
C9_Interleaved ==
    /\ ret.fn = "intersect"
    /\ Len(world.objects) >= 2
    /\ Len(ret.value) >= 4
    /\ ret.value # all_intersections(world.objects, Len(world.objects), call.ray)

---------------------------------------------------------------------------
(* Direct calls of Material::lighting.                                     *)

DullMaterial ==
    [DEFAULT_MATERIAL EXCEPT !.color = Color(R(1, 2), One, R(1, 4)),
                             !.ambient = R(1, 5),
                             !.shininess = Two]

LightingMaterials ==
    {DEFAULT_MATERIAL, MirrorMaterial, get_material(ShinyGlassCube),
     DullMaterial}

LightingLights ==
    {Light(point(I(10)), WHITE),
     Light(point(I(-10)), Color(R(1, 2), One, R(1, 4)))}

LightingPoints == {point(Zero), point(I(3))}

\* Eye vectors of length 1, and of length 1/2 for the material whose
\* shininess is small.
LightingEyes(material) ==
    {vector(One), vector(I(-1))}
    \cup (IF RLe(material.shininess, Two)
          THEN {vector(R(1, 2)), vector(R(-1, 2))} ELSE {})

LightingNormals == {vector(One), vector(I(-1))}

InitLighting ==
    /\ world = NoWorld
    /\ stack = <<>>
    /\ result = None
    /\ \E m \in LightingMaterials, l \in LightingLights, pt \in LightingPoints,
          n \in LightingNormals, s \in BOOLEAN :
          \E e \in LightingEyes(m) :
             call = [fn |-> "lighting", material |-> m, light |-> l,
                     point |-> pt, eye |-> e, normal |-> n, is_shadowed |-> s]
    /\ ret = NoRet

CallLighting ==
    /\ call.fn = "lighting"
    /\ ret.fn = "none"
    /\ ret' = [fn |-> "lighting",
               value |-> lighting(call.material, call.light, call.point,
                                  call.eye, call.normal, call.is_shadowed)]
    /\ UNCHANGED <<world, stack, result, call>>

NextLighting == CallLighting

SpecLighting == InitLighting /\ [][NextLighting]_vars

\* The cosine between the direction to the light and the normal.
LightDotNormal ==
    dot(normalize(subtract(call.light.position, call.point)), call.normal)

\* The ambient term: effective colour times the ambient coefficient.
AmbientTerm ==
    Color_multiply(hadamard(call.material.color, call.light.intensity),
                   call.material.ambient)

\* C10: lighting returns the ambient term alone when is_shadowed is true
\* and when light_dot_normal < 0; otherwise it returns ambient + diffuse +
\* specular, with diffuse = effective colour * diffuse * light_dot_normal
\* and specular = light intensity * specular * reflect_dot_eye^shininess
\* (black when reflect_dot_eye <= 0).
C10_Lighting ==
    ret.fn = "lighting" =>
        LET m == call.material
            l == call.light
            light_dir == normalize(subtract(l.position, call.point))
            reflect_dot_eye ==
                dot(reflect(negate(light_dir), call.normal), call.eye)
            diffuse ==
                Color_multiply(hadamard(m.color, l.intensity),
                               RMul(m.diffuse, LightDotNormal))
            specular ==
                IF RLe(reflect_dot_eye, Zero) THEN BLACK
                ELSE Color_multiply(l.intensity,
                         RMul(m.specular, powf(reflect_dot_eye, m.shininess.n)))
        IN  IF call.is_shadowed \/ RLt(LightDotNormal, Zero)
            THEN ret.value = AmbientTerm
            ELSE ret.value = Color_add(Color_add(AmbientTerm, diffuse), specular)

\* test_lighting_light_behind_surface: not shadowed, the light behind the
\* surface of the default material: (0.1, 0.1, 0.1).
C10_LightBehindSurface ==
    /\ ret.fn = "lighting"
    /\ ~call.is_shadowed
    /\ call.material = DEFAULT_MATERIAL
    /\ call.light.intensity = WHITE
    /\ RLt(LightDotNormal, Zero)
    /\ ret.value = Color(R(1, 10), R(1, 10), R(1, 10))

---------------------------------------------------------------------------
(* Constructors.  Every constructor of a shape stores                      *)
(* transform.inverse().unwrap(): Option::unwrap panics on None.            *)

unwrap_panics(option) == option = None

\* cylinder.rs: new_infinite, new_truncated, new_capped.
Cylinder(transform, material, minimum, maximum, is_closed) ==
    [kind |-> "Cylinder",
     transform |-> transform,
     inverse_transform |-> unwrap(inverse(transform)),
     material |-> material,
     minimum |-> minimum,
     maximum |-> maximum,
     is_closed |-> is_closed]

Cylinder_new_infinite(transform, material) ==
    Cylinder(transform, material, NEG_INFINITY, INFINITY, FALSE)

Cylinder_new_truncated(transform, material, minimum, maximum) ==
    Cylinder(transform, material, minimum, maximum, FALSE)

Cylinder_new_capped(transform, material, minimum, maximum) ==
    Cylinder(transform, material, minimum, maximum, TRUE)

\* cone.rs: new_infinite, new_capped.
Cone(transform, material, minimum, maximum, is_closed) ==
    [kind |-> "Cone",
     transform |-> transform,
     inverse_transform |-> unwrap(inverse(transform)),
     material |-> material,
     minimum |-> minimum,
     maximum |-> maximum,
     is_closed |-> is_closed]

Cone_new_infinite(transform, material) ==
    Cone(transform, material, NEG_INFINITY, INFINITY, FALSE)

Cone_new_capped(transform, material, minimum, maximum) ==
    Cone(transform, material, minimum, maximum, TRUE)

Constructors ==
    {"Sphere::new", "Plane::new", "Cube::new", "Cylinder::new_infinite",
     "Cylinder::new_truncated", "Cylinder::new_capped", "Cone::new_infinite",
     "Cone::new_capped"}

\* Transforms handed to the constructors: invertible ones, and scalings by
\* zero alone and under a translation.
NewTransforms ==
    {IDENTITY, translation(I(3)), scaling(Two), scaling(R(1, 2)),
     scaling(I(-1)), multiply_matrix(translation(I(-2)), scaling(R(1, 3))),
     scaling(Zero), multiply_matrix(translation(I(3)), scaling(Zero))}

NewMaterials == {DEFAULT_MATERIAL, glass(R(3, 2))}

InitNew ==
    /\ world = NoWorld
    /\ stack = <<>>
    /\ result = None
    /\ \E c \in Constructors, t \in NewTransforms, m \in NewMaterials :
          call = [fn |-> c, transform |-> t, material |-> m,
                  minimum |-> One, maximum |-> Two]
    /\ ret = NoRet

\* The outcome of a constructor: the panic of unwrap, or the object.
Constructed(object_of(_)) ==
    /\ ret.fn = "none"
    /\ ret' = IF unwrap_panics(inverse(call.transform))
              THEN [fn |-> "new", panic |-> TRUE]
              ELSE [fn |-> "new", panic |-> FALSE, object |-> object_of(call)]
    /\ UNCHANGED <<world, stack, result, call>>

NewSphere ==
    /\ call.fn = "Sphere::new"
    /\ Constructed(LAMBDA c : Sphere(c.transform, c.material))

NewPlane ==
    /\ call.fn = "Plane::new"
    /\ Constructed(LAMBDA c : Plane(c.transform, c.material))

NewCube ==
    /\ call.fn = "Cube::new"
    /\ Constructed(LAMBDA c : Cube(c.transform, c.material))

NewCylinder ==
    \/ /\ call.fn = "Cylinder::new_infinite"
       /\ Constructed(LAMBDA c : Cylinder_new_infinite(c.transform, c.material))
    \/ /\ call.fn = "Cylinder::new_truncated"
       /\ Constructed(LAMBDA c : Cylinder_new_truncated(
                          c.transform, c.material, c.minimum, c.maximum))
    \/ /\ call.fn = "Cylinder::new_capped"
       /\ Constructed(LAMBDA c : Cylinder_new_capped(
                          c.transform, c.material, c.minimum, c.maximum))

NewCone ==
    \/ /\ call.fn = "Cone::new_infinite"
       /\ Constructed(LAMBDA c : Cone_new_infinite(c.transform, c.material))
    \/ /\ call.fn = "Cone::new_capped"
       /\ Constructed(LAMBDA c : Cone_new_capped(
                          c.transform, c.material, c.minimum, c.maximum))

NextNew == NewSphere \/ NewPlane \/ NewCube \/ NewCylinder \/ NewCone

SpecNew == InitNew /\ [][NextNew]_vars

\* C11: a constructor of a sphere, plane, cube, cylinder or cone called
\* with a transform whose determinant is zero panics; an object that was
\* constructed has a transform with a non-zero determinant, and its stored
\* inverse is the inverse of that transform.
C11_SingularTransformPanics ==
    ret.fn = "new" =>
        /\ REq(determinant(call.transform), Zero) => ret.panic
        /\ ~ret.panic =>
              /\ ret.object.transform = call.transform
              /\ ~REq(determinant(ret.object.transform), Zero)
              /\ multiply_matrix(ret.object.transform,
                                 ret.object.inverse_transform) = IDENTITY

\* A capped cylinder scaled by zero: the constructor panicked.
C11_ScaledByZero ==
    /\ ret.fn = "new"
    /\ call.fn = "Cylinder::new_capped"
    /\ call.transform = scaling(Zero)
    /\ ret.panic

---------------------------------------------------------------------------
(* cylinder.rs, cone.rs: the shapes in their own space.  Their local rays  *)
(* and points leave the axis, so they carry all three coordinates.         *)

point3(x, y, z) == [x |-> x, y |-> y, z |-> z, w |-> One]
vector3(x, y, z) == [x |-> x, y |-> y, z |-> z, w |-> Zero]

\* y > self.minimum && y < self.maximum, with closed ends.
within_bounds_inclusive(shape, local_ray, t) ==
    Let(RAdd(local_ray.origin.y, RMul(local_ray.direction.y, t)), LAMBDA y :
        RGe(y, shape.minimum) /\ RLe(y, shape.maximum))

\* y > self.minimum && y < self.maximum for the height y of the ray at t.
within_bounds(shape, local_ray, t) ==
    Let(RAdd(local_ray.origin.y, RMul(local_ray.direction.y, t)), LAMBDA y :
        RGt(y, shape.minimum) /\ RLt(y, shape.maximum))

\* The wall crossings t1, t2 that lie between the ends.
bounded(shape, local_ray, ts) ==
    SelectSeq(ts, LAMBDA t : within_bounds(shape, local_ray, t))

Cylinder_check_cap(local_ray, t) ==
    Let(RAdd(local_ray.origin.x, RMul(t, local_ray.direction.x)), LAMBDA x :
    Let(RAdd(local_ray.origin.z, RMul(t, local_ray.direction.z)), LAMBDA z :
        RLe(RAdd(RMul(x, x), RMul(z, z)), One)))

Cylinder_intersect_caps(cylinder, local_ray) ==
    IF ~cylinder.is_closed \/ RLt(RAbs(local_ray.direction.y), EPSILON)
    THEN <<>>
    ELSE Let(RDiv(RSub(cylinder.minimum, local_ray.origin.y),
                  local_ray.direction.y), LAMBDA t1 :
         Let(RDiv(RSub(cylinder.maximum, local_ray.origin.y),
                  local_ray.direction.y), LAMBDA t2 :
             (IF Cylinder_check_cap(local_ray, t1) THEN <<t1>> ELSE <<>>)
             \o (IF Cylinder_check_cap(local_ray, t2) THEN <<t2>> ELSE <<>>)))

\* The roots of a t^2 + b t + c between the ends of the shape.
wall_roots(shape, local_ray, a, b, c) ==
    Let(RSub(RMul(b, b), RMul(RMul(I(4), a), c)), LAMBDA discriminant :
        IF RLt(discriminant, Zero) THEN <<>>
        ELSE IF REq(discriminant, Zero)
        THEN bounded(shape, local_ray, <<RDiv(RNeg(b), RMul(Two, a))>>)
        ELSE bounded(shape, local_ray,
                 <<RDiv(RSub(RNeg(b), RSqrt(discriminant)), RMul(Two, a)),
                   RDiv(RAdd(RNeg(b), RSqrt(discriminant)), RMul(Two, a))>>))

Cylinder_intersect_walls(cylinder, local_ray) ==
    Let(local_ray.origin, LAMBDA o :
    Let(local_ray.direction, LAMBDA d :
    Let(RAdd(RMul(d.x, d.x), RMul(d.z, d.z)), LAMBDA a :
        IF RLt(RAbs(a), EPSILON) THEN <<>>
        ELSE wall_roots(cylinder, local_ray, a,
                 RAdd(RMul(RMul(Two, o.x), d.x), RMul(RMul(Two, o.z), d.z)),
                 RSub(RAdd(RMul(o.x, o.x), RMul(o.z, o.z)), One)))))

Cylinder_intersect(cylinder, local_ray) ==
    Cylinder_intersect_walls(cylinder, local_ray)
        \o Cylinder_intersect_caps(cylinder, local_ray)

Cylinder_normal_at(cylinder, local_point) ==
    Let(RAdd(RMul(local_point.x, local_point.x),
             RMul(local_point.z, local_point.z)), LAMBDA distance :
        IF RLt(distance, One)
           /\ RGe(local_point.y, RSub(cylinder.maximum, EPSILON))
        THEN vector3(Zero, One, Zero)
        ELSE IF RLt(distance, One)
                /\ RLe(local_point.y, RAdd(cylinder.minimum, EPSILON))
        THEN vector3(Zero, I(-1), Zero)
        ELSE vector3(local_point.x, Zero, local_point.z))

Cone_check_cap(local_ray, t, y) ==
    Let(RAdd(local_ray.origin.x, RMul(t, local_ray.direction.x)), LAMBDA x :
    Let(RAdd(local_ray.origin.z, RMul(t, local_ray.direction.z)), LAMBDA z :
        RLe(RAdd(RMul(x, x), RMul(z, z)), RAbs(y))))

Cone_intersect_caps(cone, local_ray) ==
    IF ~cone.is_closed \/ RLt(RAbs(local_ray.direction.y), EPSILON)
    THEN <<>>
    ELSE Let(RDiv(RSub(cone.minimum, local_ray.origin.y),
                  local_ray.direction.y), LAMBDA t1 :
         Let(RDiv(RSub(cone.maximum, local_ray.origin.y),
                  local_ray.direction.y), LAMBDA t2 :
             (IF Cone_check_cap(local_ray, t1, cone.minimum)
              THEN <<t1>> ELSE <<>>)
             \o (IF Cone_check_cap(local_ray, t2, cone.maximum)
                 THEN <<t2>> ELSE <<>>)))

Cone_intersect_walls(cone, local_ray) ==
    Let(local_ray.origin, LAMBDA o :
    Let(local_ray.direction, LAMBDA d :
    Let(RAdd(RSub(RMul(d.x, d.x), RMul(d.y, d.y)), RMul(d.z, d.z)),
        LAMBDA a :
    Let(RAdd(RSub(RMul(RMul(Two, o.x), d.x), RMul(RMul(Two, o.y), d.y)),
             RMul(RMul(Two, o.z), d.z)), LAMBDA b :
    Let(RAdd(RSub(RMul(o.x, o.x), RMul(o.y, o.y)), RMul(o.z, o.z)),
        LAMBDA c :
        IF RLt(RAbs(a), EPSILON) /\ RLt(RAbs(b), EPSILON) THEN <<>>
        ELSE IF RLt(RAbs(a), EPSILON) /\ RGt(RAbs(b), EPSILON)
        THEN <<RDiv(RDiv(RNeg(c), Two), b)>>
        ELSE wall_roots(cone, local_ray, a, b, c))))))

Cone_intersect(cone, local_ray) ==
    Cone_intersect_walls(cone, local_ray)
        \o Cone_intersect_caps(cone, local_ray)

Cone_normal_at(cone, local_point) ==
    Let(RAdd(RMul(local_point.x, local_point.x),
             RMul(local_point.z, local_point.z)), LAMBDA distance :
        IF RLt(distance, One)
           /\ RGe(local_point.y, RSub(cone.maximum, EPSILON))
        THEN vector3(Zero, One, Zero)
        ELSE IF RLt(distance, One)
                /\ RLe(local_point.y, RAdd(cone.minimum, EPSILON))
        THEN vector3(Zero, I(-1), Zero)
        ELSE IF RGt(local_point.x, Zero)
        THEN vector3(local_point.x, RNeg(RSqrt(distance)), local_point.z)
        ELSE vector3(local_point.x, RSqrt(distance), local_point.z))

\* Shape::intersect of a shape on a ray of its own space.
Shape_intersect(shape, local_ray) ==
    CASE shape.kind = "Sphere" -> Sphere_intersect(local_ray)
      [] shape.kind = "Plane" -> Plane_intersect(local_ray)
      [] shape.kind = "Cube" -> Cube_intersect(local_ray)
      [] shape.kind = "Cylinder" -> Cylinder_intersect(shape, local_ray)
      [] shape.kind = "Cone" -> Cone_intersect(shape, local_ray)

---------------------------------------------------------------------------
(* Degenerate rays: direct calls of the shapes' intersect, and of          *)
(* World::intersect followed by hit, with rays whose direction is the zero *)
(* vector or runs along the axis of a cylinder or cone.                    *)

DegenerateOrigins == {I(-2), I(-1), Zero, R(1, 2), One, I(3)}

\* On the axis, the zero vector is also the direction parallel to a plane.
AxisShapes ==
    {Sphere(IDENTITY, DEFAULT_MATERIAL), Plane(IDENTITY, DEFAULT_MATERIAL),
     Cube(IDENTITY, DEFAULT_MATERIAL)}

RoundShapes ==
    {Cylinder_new_infinite(IDENTITY, DEFAULT_MATERIAL),
     Cylinder_new_truncated(IDENTITY, DEFAULT_MATERIAL, One, Two),
     Cylinder_new_capped(IDENTITY, DEFAULT_MATERIAL, One, Two),
     Cone_new_infinite(IDENTITY, DEFAULT_MATERIAL),
     Cone_new_capped(IDENTITY, DEFAULT_MATERIAL, I(-1), Two)}

DegenerateDirections ==
    {vector3(Zero, Zero, Zero), vector3(Zero, One, Zero),
     vector3(Zero, I(-1), Zero)}

DegenerateLocalRays ==
    {Ray(point3(x, y, Zero), d) :
        x \in {Zero, R(1, 2), Two}, y \in {Zero, R(3, 2)},
        d \in DegenerateDirections}

DegenerateWorlds ==
    {World(RefrLight, objects) :
        objects \in SeqsUpTo({RefrSphere, SphereA, RefrPlane, RefrCube}, 2)
                        \ {<<>>}}

InitDegenerate ==
    /\ stack = <<>>
    /\ result = None
    /\ ret = NoRet
    /\ \/ /\ world = NoWorld
          /\ \E s \in AxisShapes, y \in DegenerateOrigins :
                call = [fn |-> "Shape::intersect", shape |-> s,
                        local_ray |-> Ray(point(y), vector(Zero))]
       \/ /\ world = NoWorld
          /\ \E s \in RoundShapes, r \in DegenerateLocalRays :
                call = [fn |-> "Shape::intersect", shape |-> s,
                        local_ray |-> r]
       \/ /\ world \in DegenerateWorlds
          /\ \E y \in DegenerateOrigins :
                call = [fn |-> "World::intersect",
                        ray |-> Ray(point(y), vector(Zero))]

CallShapeIntersect ==
    /\ call.fn = "Shape::intersect"
    /\ ret.fn = "none"
    /\ ret' = [fn |-> "Shape::intersect",
               value |-> Shape_intersect(call.shape, call.local_ray)]
    /\ UNCHANGED <<world, stack, result, call>>

\* World::intersect: the sort panics on a NaN that it compares.
CallWorldIntersect ==
    /\ call.fn = "World::intersect"
    /\ ret.fn = "none"
    /\ ret' = IF sort_panics(World_intersect_unsorted(world, call.ray))
              THEN [fn |-> "World::intersect", panic |-> TRUE]
              ELSE [fn |-> "World::intersect", panic |-> FALSE,
                    value |-> World_intersect(world, call.ray)]
    /\ UNCHANGED <<world, stack, result, call>>

\* hit on the list World::intersect returned.
CallHitOfIntersect ==
    /\ ret.fn = "World::intersect"
    /\ ~ret.panic
    /\ result = None
    /\ result' = Some(hit(ret.value))
    /\ UNCHANGED <<world, stack, call, ret>>

NextDegenerate == CallShapeIntersect \/ CallWorldIntersect \/ CallHitOfIntersect

SpecDegenerate == InitDegenerate /\ [][NextDegenerate]_vars

\* C12: a ray parallel to the plane, parallel to the axis of the cylinder
\* or cone, or with a zero-length direction yields no intersection from
\* any shape, and World::intersect and hit return for it without a panic
\* and without a NaN or infinite t.
C12_DegenerateRaysYieldNothing ==
    /\ ret.fn = "Shape::intersect" => ret.value = <<>>
    /\ ret.fn = "World::intersect" => ~ret.panic /\ ret.value = <<>>
    /\ result # None => result = Some(None)

\* The unit sphere and a ray with a zero direction: one intersection whose
\* t is 0/0.
C12_SphereNaN ==
    /\ ret.fn = "Shape::intersect"
    /\ call.shape.kind = "Sphere"
    /\ call.local_ray.direction = vector(Zero)
    /\ Len(ret.value) = 1
    /\ IsNaN(ret.value[1])

---------------------------------------------------------------------------
(* Direct calls of schlick_reflectance.                                    *)

SchlickIndices == {One, R(3, 2), Two, R(5, 2)}

\* eye . normal for a unit normal and eyes of length up to 1.
SchlickCosines == {Zero, R(1, 2), R(3, 5), R(7, 9), R(7, 8), One}

\* The values whose square root is a rational.
HasRationalRoot(q) ==
    \/ q.d = 0
    \/ q.n < 0
    \/ /\ \E r \in 0..q.n : r * r = q.n
       /\ \E r \in 0..q.d : r * r = q.d

sin2_theta_1(computations) ==
    Let(dot(computations.eye, computations.normal), LAMBDA cos_theta_1 :
    Let(RDiv(computations.n1, computations.n2), LAMBDA n :
        RMul(RMul(n, n), RSub(One, RMul(cos_theta_1, cos_theta_1)))))

InitSchlick ==
    /\ world = NoWorld
    /\ stack = <<>>
    /\ result = None
    /\ ret = NoRet
    /\ \E n1 \in SchlickIndices, n2 \in SchlickIndices, c \in SchlickCosines,
          s \in {One, I(-1)} :
          /\ call = [fn |-> "schlick_reflectance",
                     computations |->
                         [eye |-> vector(RMul(s, c)), normal |-> vector(s),
                          n1 |-> n1, n2 |-> n2]]
          /\ HasRationalRoot(RSub(One, sin2_theta_1(call.computations)))

CallSchlickReflectance ==
    /\ call.fn = "schlick_reflectance"
    /\ ret.fn = "none"
    /\ ret' = [fn |-> "schlick_reflectance",
               value |-> schlick_reflectance(call.computations)]
    /\ UNCHANGED <<world, stack, result, call>>

NextSchlick == CallSchlickReflectance

SpecSchlick == InitSchlick /\ [][NextSchlick]_vars

\* C13: schlick_reflectance returns exactly 1 whenever n1 > n2 and
\* (n1/n2)^2 (1 - cos^2) > 1; when n1 <= n2 it returns the Schlick
\* approximation for cos, never the total-internal-reflection value; and
\* the value returned is never the NaN of a negative square root: where
\* the root is used, 1 - sin2_theta_1 >= 0.
C13_SchlickTotalInternalReflection ==
    ret.fn = "schlick_reflectance" =>
        LET c == call.computations
            cos == dot(c.eye, c.normal)
            sin2 == sin2_theta_1(c)
        IN  /\ RGt(c.n1, c.n2) /\ RGt(sin2, One) => ret.value = One
            /\ RLe(c.n1, c.n2) =>
                   ret.value = schlick_reflectance_helper(c.n1, c.n2, cos)
            /\ RGt(c.n1, c.n2) /\ ~RGt(sin2, One) =>
                   /\ RGe(RSub(One, sin2), Zero)
                   /\ ret.value = schlick_reflectance_helper(
                                      c.n1, c.n2, RSqrt(RSub(One, sin2)))
            /\ ~IsNaN(ret.value)

\* From glass (2) into air (1) at cos = 1/2: sin2_theta_1 = 3.
C13_GlassToAir ==
    /\ ret.fn = "schlick_reflectance"
    /\ call.computations.n1 = Two
    /\ call.computations.n2 = One
    /\ dot(call.computations.eye, call.computations.normal) = R(1, 2)
    /\ ret.value = One

---------------------------------------------------------------------------
(* Direct calls of Object::is_equal on the two objects of a world, and of  *)
(* the search refractive_indices_for makes for the second object in a      *)
(* containment list that holds the first.                                  *)

\* The second translation differs from the identity by less than EPSILON.
EqualTransforms ==
    {IDENTITY, translation(R(1, 200000)), translation(One), scaling(Two)}

EqualObjects ==
    UNION {{Sphere(t, m), Plane(t, m), Cube(t, m), Cylinder_new_infinite(t, m)} :
              t \in EqualTransforms, m \in {DEFAULT_MATERIAL, glass(Two)}}

InitEqual ==
    /\ \E a \in EqualObjects, b \in EqualObjects :
          world = World(RefrLight, <<a, b>>)
    /\ stack = <<>>
    /\ result = None
    /\ call = [fn |-> "is_equal"]
    /\ ret = NoRet

CallIsEqual ==
    /\ call.fn = "is_equal"
    /\ ret.fn = "none"
    /\ ret' = [fn |-> "is_equal",
               value |-> Object_is_equal(world.objects[1], world.objects[2])]
    /\ UNCHANGED <<world, stack, result, call>>

\* containers.iter().position(..) for an intersection of the second object
\* when the list holds an intersection of the first.
CallContainerPosition ==
    /\ ret.fn = "is_equal"
    /\ result = None
    /\ result' = Some(container_position(world.objects,
                                         <<Intersection(One, 1)>>,
                                         Intersection(Two, 2)))
    /\ UNCHANGED <<world, stack, call, ret>>

NextEqual == CallIsEqual \/ CallContainerPosition

SpecEqual == InitEqual /\ [][NextEqual]_vars

\* Every element of the two transforms within EPSILON of the other's.
TransformsEqual(a, b) ==
    /\ float_is_equal(a.transform.s, b.transform.s)
    /\ float_is_equal(a.transform.c, b.transform.c)

\* C14 as stated: is_equal is true exactly when the transforms are equal
\* within epsilon, whatever the variants and materials of the two objects.
C14_EqualityIsTransformEquality ==
    ret.fn = "is_equal" =>
        (ret.value <=> TransformsEqual(world.objects[1], world.objects[2]))

\* C14: is_equal is true exactly when the two objects are of the same
\* variant and their transforms are equal within epsilon, whatever their
\* materials; the containment list finds the second object in place of the
\* first exactly then.
C14_EqualityIsVariantAndTransform ==
    LET a == world.objects[1]
        b == world.objects[2]
    IN  /\ ret.fn = "is_equal" =>
              (ret.value <=> a.kind = b.kind /\ TransformsEqual(a, b))
        /\ result # None =>
              (result = Some(1) <=> a.kind = b.kind /\ TransformsEqual(a, b))

\* Two spheres of different materials whose transforms differ by less
\* than epsilon: equal, and found in the containment list.
C14_DistinctSpheresEqual ==
    /\ ret.fn = "is_equal"
    /\ ret.value
    /\ result = Some(1)
    /\ world.objects[1].kind = "Sphere"
    /\ world.objects[1].material # world.objects[2].material
    /\ world.objects[1].transform # world.objects[2].transform

---------------------------------------------------------------------------
(* prepare_computations: the side of the surface the eye is on.            *)

---------------------------------------------------------------------------
(* color_at as a function of the world, the ray and the budget: the same   *)
(* code read as nested calls, without the stack.                           *)

RECURSIVE color_at_value(_, _, _)
color_at_value(w, ray, remaining) ==
    Let(color_at_hit(w, ray), LAMBDA h :
        IF h = None THEN BLACK
        ELSE
        Let(prepare_computations(w.objects, h[1], ray, color_at_list(w, ray)),
            LAMBDA c :
        Let(get_material(w.objects[c.object]), LAMBDA material :
        Let(reflected_color_call(w.objects, c, remaining), LAMBDA rc :
        Let(refracted_color_call(w.objects, c, remaining), LAMBDA tc :
            shade_hit_color(
                w.objects, c,
                lighting(material, w.light, c.point, c.eye, c.normal,
                         is_shadowed(w, c.over_point)),
                IF rc = None THEN BLACK
                ELSE Color_multiply(
                         color_at_value(w, rc[1].ray, rc[1].remaining),
                         material.reflective),
                IF tc = None THEN BLACK
                ELSE Color_multiply(
                         color_at_value(w, tc[1].ray, tc[1].remaining),
                         material.transparency)))))))

---------------------------------------------------------------------------
(* pattern.rs, and Material::lighting on a material whose colour is a      *)
(* SurfacePattern.  On the axis the x and z coordinates of every point are *)
(* 0.                                                                      *)

\* f64::floor.
floor(q) == IF q.d = 0 THEN q ELSE I(q.n \div q.d)

\* x % 2. == 0. for a whole x.
is_even(q) == q.d = 1 /\ q.n % 2 = 0

Pattern(kind, color, other_color, transform) ==
    [pattern |-> kind,
     color |-> color,
     other_color |-> other_color,
     transform |-> transform,
     inverse_transform |-> unwrap(inverse(transform))]

\* The x coordinate of a point; the points on the axis have x = 0.
x_of(pt) == IF "x" \in DOMAIN pt THEN pt.x ELSE Zero

\* Striped::color_at rounding x towards zero.
Striped_color_at_truncating(striped, pattern_point) ==
    IF is_even(RMul(I(Sgn(x_of(pattern_point).n)),
                    floor(RAbs(x_of(pattern_point)))))
    THEN striped.color ELSE striped.other_color

Striped_color_at(striped, pattern_point) ==
    IF is_even(floor(x_of(pattern_point)))
    THEN striped.color ELSE striped.other_color

Gradient_color_at(gradient, pattern_point) ==
    Let([r |-> RSub(gradient.other_color.r, gradient.color.r),
         g |-> RSub(gradient.other_color.g, gradient.color.g),
         b |-> RSub(gradient.other_color.b, gradient.color.b)],
        LAMBDA distance :
    Let(RSub(Zero, floor(Zero)), LAMBDA fraction :
        Color_add(gradient.color, Color_multiply(distance, fraction))))

Ring_color_at(ring, pattern_point) ==
    IF is_even(floor(RSqrt(RAdd(RMul(Zero, Zero), RMul(Zero, Zero)))))
    THEN ring.color ELSE ring.other_color

Checker_color_at(checker, pattern_point) ==
    IF is_even(RAdd(RAdd(floor(Zero), floor(pattern_point.y)), floor(Zero)))
    THEN checker.color ELSE checker.other_color

Pattern_color_at(pattern, object, world_point) ==
    Let(multiply_tuple(object.inverse_transform, world_point),
        LAMBDA object_point :
    Let(multiply_tuple(pattern.inverse_transform, object_point),
        LAMBDA pattern_point :
        CASE pattern.pattern = "Striped" ->
                 Striped_color_at(pattern, pattern_point)
          [] pattern.pattern = "Gradient" ->
                 Gradient_color_at(pattern, pattern_point)
          [] pattern.pattern = "Ring" -> Ring_color_at(pattern, pattern_point)
          [] pattern.pattern = "Checker" ->
                 Checker_color_at(pattern, pattern_point)))

\* A Coloring is a SolidColor, a colour, or a SurfacePattern, a pattern.
is_pattern(coloring) == "pattern" \in DOMAIN coloring

\* Material::lighting: the match on the Coloring, then lighting on the
\* colour it yields.
Material_lighting(material, light, object, pt, eye, normal, in_shadow) ==
    lighting(
        [material EXCEPT !.color =
            IF is_pattern(material.color)
            THEN Pattern_color_at(material.color, object, pt)
            ELSE material.color],
        light, pt, eye, normal, in_shadow)

Patterned(pattern) ==
    [DEFAULT_MATERIAL EXCEPT !.color = pattern, !.shininess = Two]

BlackLightMaterials ==
    {DEFAULT_MATERIAL, DullMaterial,
     Patterned(Pattern("Striped", WHITE, BLACK, IDENTITY)),
     Patterned(Pattern("Gradient", WHITE, Color(One, Zero, Zero),
                       scaling(Two))),
     Patterned(Pattern("Ring", Color(R(1, 2), One, Zero), BLACK,
                       translation(One))),
     Patterned(Pattern("Checker", WHITE, Color(Zero, R(1, 2), One),
                       IDENTITY))}

\* Black lights and a white one, one of them at a point of the surface.
BlackLightLights ==
    {Light(point(I(10)), BLACK), Light(point(I(-10)), BLACK),
     Light(point(I(3)), BLACK), Light(point(I(10)), WHITE)}

BlackLightPoints == {point(Zero), point(I(3))}

InitBlackLight ==
    /\ world = NoWorld
    /\ stack = <<>>
    /\ result = None
    /\ \E m \in BlackLightMaterials, l \in BlackLightLights,
          pt \in BlackLightPoints, e \in LightingNormals,
          n \in LightingNormals, s \in BOOLEAN,
          o \in {Plane(translation(I(3)), DEFAULT_MATERIAL),
                 Sphere(scaling(I(3)), DEFAULT_MATERIAL)} :
          call = [fn |-> "lighting", material |-> m, light |-> l,
                  object |-> o, point |-> pt, eye |-> e, normal |-> n,
                  is_shadowed |-> s]
    /\ ret = NoRet

CallMaterialLighting ==
    /\ call.fn = "lighting"
    /\ ret.fn = "none"
    /\ ret' = [fn |-> "lighting",
               value |-> Material_lighting(call.material, call.light,
                             call.object, call.point, call.eye, call.normal,
                             call.is_shadowed)]
    /\ UNCHANGED <<world, stack, result, call>>

NextBlackLight == CallMaterialLighting

SpecBlackLight == InitBlackLight /\ [][NextBlackLight]_vars

\* C17: with a light of intensity black, lighting returns black for every
\* material, solid or patterned, every point, eye and normal and both
\* values of is_shadowed.
C17_BlackLightIsBlack ==
    ret.fn = "lighting" /\ call.light.intensity = BLACK => ret.value = BLACK

\* The point is the light's position and is not shadowed: the colour
\* returned is NaN in every component.
C17_PointAtLight ==
    /\ ret.fn = "lighting"
    /\ call.light.intensity = BLACK
    /\ call.point = call.light.position
    /\ ~call.is_shadowed
    /\ ret.value = Color(NaN, NaN, NaN)

---------------------------------------------------------------------------
(* Direct calls of Cylinder::intersect, Cone::intersect and                *)
(* Cone::normal_at in the shape's own space.  The rays and points are      *)
(* those whose square roots are rational.                                  *)

RoundCylinders ==
    {Cylinder_new_infinite(IDENTITY, DEFAULT_MATERIAL),
     Cylinder_new_truncated(IDENTITY, DEFAULT_MATERIAL, One, Two),
     Cylinder_new_capped(IDENTITY, DEFAULT_MATERIAL, One, Two)}

\* test_intersect_hits_truncated, test_intersect_hits_capped: rays across
\* the axis, level and sloped, and rays along it.
CylinderRays ==
    {Ray(point3(x, y, z), d) :
        x \in {Zero, R(3, 5), One, Two},
        y \in {Zero, One, R(3, 2), Two, I(3)},
        z \in {I(-5), Zero},
        d \in {vector3(Zero, Zero, One), vector3(Zero, R(1, 4), One),
               vector3(Zero, R(-1, 4), One), vector3(Zero, One, Zero),
               vector3(Zero, I(-1), Zero)}}

RoundCones ==
    {Cone_new_infinite(IDENTITY, DEFAULT_MATERIAL),
     Cone_new_capped(IDENTITY, DEFAULT_MATERIAL, R(-1, 2), R(1, 2)),
     Cone_new_capped(IDENTITY, DEFAULT_MATERIAL, I(-2), Two)}

\* test_intersect_capped: rays along the axis at several distances from
\* it, and rays across it.
ConeRays ==
    {Ray(point3(x, y, Zero), d) :
        x \in {Zero, R(1, 4), R(3, 5), R(3, 2), R(9, 5), I(3)},
        y \in {Zero, One, I(-1)},
        d \in {vector3(Zero, One, Zero), vector3(Zero, I(-1), Zero)}}
    \cup {Ray(point3(Zero, y, I(-5)), d) :
             y \in {Zero, R(1, 4), One, I(3)},
             d \in {vector3(Zero, Zero, One), vector3(Zero, One, One)}}

\* Points with x^2 + z^2 = y^2, on every side of the axis, above and below
\* the apex.
ConePoints ==
    {point3(RMul(sx, p[1]), RMul(sy, p[3]), RMul(sz, p[2])) :
        p \in {<<One, Zero, One>>, <<Zero, One, One>>,
               <<R(3, 5), R(4, 5), One>>, <<I(3), I(4), I(5)>>},
        sx \in {One, I(-1)}, sy \in {One, I(-1)}, sz \in {One, I(-1)}}

InitRound ==
    /\ world = NoWorld
    /\ stack = <<>>
    /\ result = None
    /\ ret = NoRet
    /\ \/ \E s \in RoundCylinders, r \in CylinderRays :
             call = [fn |-> "Cylinder::intersect", shape |-> s, local_ray |-> r]
       \/ \E s \in RoundCones, r \in ConeRays :
             call = [fn |-> "Cone::intersect", shape |-> s, local_ray |-> r]
       \/ \E s \in RoundCones, p \in ConePoints :
             call = [fn |-> "Cone::normal_at", shape |-> s, local_point |-> p]

CallCylinderIntersect ==
    /\ call.fn = "Cylinder::intersect"
    /\ ret.fn = "none"
    /\ ret' = [fn |-> "Cylinder::intersect",
               value |-> Cylinder_intersect(call.shape, call.local_ray)]
    /\ UNCHANGED <<world, stack, result, call>>

CallConeIntersect ==
    /\ call.fn = "Cone::intersect"
    /\ ret.fn = "none"
    /\ ret' = [fn |-> "Cone::intersect",
               value |-> Cone_intersect(call.shape, call.local_ray)]
    /\ UNCHANGED <<world, stack, result, call>>

CallConeNormalAt ==
    /\ call.fn = "Cone::normal_at"
    /\ ret.fn = "none"
    /\ ret' = [fn |-> "Cone::normal_at",
               value |-> Cone_normal_at(call.shape, call.local_point)]
    /\ UNCHANGED <<world, stack, result, call>>

NextRound == CallCylinderIntersect \/ CallConeIntersect \/ CallConeNormalAt

SpecRound == InitRound /\ [][NextRound]_vars

\* The point of the local ray at t, and the square of its distance from
\* the axis.
At(local_ray, t) ==
    [x |-> RAdd(local_ray.origin.x, RMul(t, local_ray.direction.x)),
     y |-> RAdd(local_ray.origin.y, RMul(t, local_ray.direction.y)),
     z |-> RAdd(local_ray.origin.z, RMul(t, local_ray.direction.z))]

AxisDistance2(p) == RAdd(RMul(p.x, p.x), RMul(p.z, p.z))

\* C18: every t Cylinder::intersect returns is a crossing of the wall at a
\* height strictly between minimum and maximum, or, on a closed cylinder
\* only, a crossing of an end plane within the unit disc; so an open
\* cylinder returns wall crossings strictly inside its ends only, and
\* nothing at all for a level ray at the height of one of its ends.
C18_WallHitsStrictlyInside ==
    ret.fn = "Cylinder::intersect" =>
        LET cyl == call.shape
            r == call.local_ray
        IN  /\ \A k \in DOMAIN ret.value :
                  LET p == At(r, ret.value[k])
                  IN  \/ /\ AxisDistance2(p) = One
                         /\ RGt(p.y, cyl.minimum)
                         /\ RLt(p.y, cyl.maximum)
                      \/ /\ cyl.is_closed
                         /\ p.y \in {cyl.minimum, cyl.maximum}
                         /\ RLe(AxisDistance2(p), One)
            /\ ~cyl.is_closed /\ r.direction.y = Zero
                  /\ r.origin.y \in {cyl.minimum, cyl.maximum}
                  => ret.value = <<>>

\* test_intersect_hits_truncated: a level ray through the axis at the
\* height of the lower end of the truncated cylinder; the infinite
\* cylinder is crossed twice, the truncated one reports nothing.
C18_GrazingAtMinimum ==
    /\ ret.fn = "Cylinder::intersect"
    /\ ~call.shape.is_closed
    /\ call.shape.minimum = One
    /\ call.local_ray = Ray(point3(Zero, One, I(-5)), vector3(Zero, Zero, One))
    /\ Len(Cylinder_intersect(Cylinder_new_infinite(IDENTITY, DEFAULT_MATERIAL),
                              call.local_ray)) = 2
    /\ ret.value = <<>>

\* C19: every t a capped cone returns on one of its cap planes, y =
\* minimum or y = maximum, is a point whose distance from the axis is at
\* most |y|.
C19_CapHitsWithinRadius ==
    ret.fn = "Cone::intersect" /\ call.shape.is_closed =>
        \A k \in DOMAIN ret.value :
            LET p == At(call.local_ray, ret.value[k])
            IN  p.y \in {call.shape.minimum, call.shape.maximum} =>
                    RLe(AxisDistance2(p), RMul(p.y, p.y))

\* The cone capped at -1/2 and 1/2 and a ray along the axis at distance
\* 3/5 from it: both cap planes are reported, outside the cone.
C19_CapHitOutsideCone ==
    /\ ret.fn = "Cone::intersect"
    /\ call.shape.maximum = R(1, 2)
    /\ call.local_ray = Ray(point3(R(3, 5), Zero, Zero), vector3(Zero, One, Zero))
    /\ ret.value = <<R(-1, 2), R(1, 2)>>

\* The points of the lateral surface of the cone, away from its rims.
OnLateralSurface(cone, p) ==
    /\ AxisDistance2(p) = RMul(p.y, p.y)
    /\ p.y # Zero
    /\ RGt(p.y, cone.minimum)
    /\ RLt(p.y, cone.maximum)

\* C20: at a point of the lateral surface Cone::normal_at returns
\* (x, s * sqrt(x^2 + z^2), z) with s = -1 for y > 0 and s = 1 for y < 0,
\* whatever the sign of x.
C20_NormalOppositeToY ==
    ret.fn = "Cone::normal_at" /\ OnLateralSurface(call.shape, call.local_point)
        => LET p == call.local_point
               root == RSqrt(AxisDistance2(p))
           IN  ret.value = vector3(p.x, IF RGt(p.y, Zero) THEN RNeg(root)
                                        ELSE root, p.z)

\* The point (-1, 1, 0) of the infinite cone: the normal returned is
\* (-1, 1, 0).
C20_NegativeXAboveApex ==
    /\ ret.fn = "Cone::normal_at"
    /\ ~call.shape.is_closed
    /\ call.local_point = point3(I(-1), One, Zero)
    /\ ret.value = vector3(I(-1), One, Zero)

---------------------------------------------------------------------------
(* cube.rs, sphere.rs, pattern.rs on rays and points that leave the axis:  *)
(* direct calls of Cube::intersect, Sphere::intersect and                  *)
(* Striped::color_at with all three coordinates.                           *)

\* Cube::intersect on a ray with three coordinates.
Cube_intersect_xyz(local_ray) ==
    Let(check_axis(local_ray.origin.x, local_ray.direction.x), LAMBDA xt :
    Let(check_axis(local_ray.origin.y, local_ray.direction.y), LAMBDA yt :
    Let(check_axis(local_ray.origin.z, local_ray.direction.z), LAMBDA zt :
    Let(RMax(RMax(xt[1], yt[1]), zt[1]), LAMBDA tmin :
    Let(RMin(RMin(xt[2], yt[2]), zt[2]), LAMBDA tmax :
        IF RGt(tmin, tmax) THEN <<>> ELSE <<tmin, tmax>>)))))

\* test_intersect_outside, test_intersect_inside: origins inside, on and
\* outside the cube; directions along an axis, both ways, and oblique.
CubeCoordinates == {I(-5), Zero, R(1, 2), One, Two}

CubeDirections ==
    {vector3(One, Zero, Zero), vector3(I(-1), Zero, Zero),
     vector3(Zero, One, Zero), vector3(Zero, I(-1), Zero),
     vector3(Zero, Zero, One), vector3(Zero, Zero, I(-1)),
     vector3(One, One, Zero), vector3(One, I(-1), R(1, 2))}

CubeRays ==
    {Ray(point3(x, y, z), d) :
        x \in CubeCoordinates, y \in CubeCoordinates, z \in CubeCoordinates,
        d \in CubeDirections}

\* a . b for tuples with three coordinates.
dot3(a, b) ==
    RAdd(RAdd(RAdd(RMul(a.x, b.x), RMul(a.y, b.y)), RMul(a.z, b.z)),
         RMul(a.w, b.w))

\* The roots of Sphere::intersect, the larger one first.
sphere_roots_descending(a, b, discriminant) ==
    IF RLt(discriminant, Zero) THEN <<>>
    ELSE IF REq(discriminant, Zero) THEN <<RDiv(RDiv(RNeg(b), Two), a)>>
    ELSE <<RDiv(RDiv(RAdd(RNeg(b), RSqrt(discriminant)), Two), a),
           RDiv(RDiv(RSub(RNeg(b), RSqrt(discriminant)), Two), a)>>

\* The three branches of Sphere::intersect on the discriminant.
sphere_roots(a, b, discriminant) ==
    IF RLt(discriminant, Zero) THEN <<>>
    ELSE IF REq(discriminant, Zero) THEN <<RDiv(RDiv(RNeg(b), Two), a)>>
    ELSE <<RDiv(RDiv(RSub(RNeg(b), RSqrt(discriminant)), Two), a),
           RDiv(RDiv(RAdd(RNeg(b), RSqrt(discriminant)), Two), a)>>

\* Sphere::intersect on a ray with three coordinates.
Sphere_intersect_xyz(local_ray) ==
    Let([local_ray.origin EXCEPT !.w = Zero], LAMBDA sphere_to_ray :
    Let(dot3(local_ray.direction, local_ray.direction), LAMBDA a :
    Let(RMul(Two, dot3(local_ray.direction, sphere_to_ray)), LAMBDA b :
    Let(RSub(dot3(sphere_to_ray, sphere_to_ray), One), LAMBDA c :
        sphere_roots(a, b, RSub(RMul(b, b), RMul(RMul(I(4), a), c)))))))

\* The discriminant b^2 - 4ac of the sphere for a ray.
sphere_discriminant(local_ray) ==
    Let([local_ray.origin EXCEPT !.w = Zero], LAMBDA sphere_to_ray :
    Let(dot3(local_ray.direction, local_ray.direction), LAMBDA a :
    Let(RMul(Two, dot3(local_ray.direction, sphere_to_ray)), LAMBDA b :
    Let(RSub(dot3(sphere_to_ray, sphere_to_ray), One), LAMBDA c :
        RSub(RMul(b, b), RMul(RMul(I(4), a), c))))))

\* test_intersect_miss / _tangent / _inside / _behind, and rays of other
\* lengths and directions; those whose roots are rational are called.
SphereRays ==
    {Ray(point3(x, y, z), d) :
        x \in {Zero, R(3, 5), One, Two}, y \in {Zero, R(4, 5)},
        z \in {I(-5), Zero, I(5)},
        d \in {vector3(Zero, Zero, One), vector3(Zero, Zero, I(-1)),
               vector3(Zero, Zero, Two), vector3(Zero, Zero, R(1, 2)),
               vector3(One, Zero, Zero), vector3(Zero, I(3), I(4))}}

StripedPatterns ==
    {Pattern("Striped", WHITE, BLACK, IDENTITY),
     Pattern("Striped", Color(One, Zero, Zero), Color(Zero, R(1, 2), One),
             IDENTITY)}

\* test_local_color_at_striped_*: points on both sides of x = 0.
StripedPoints ==
    {point3(x, y, z) :
        x \in {Zero, R(9, 10), One, R(-1, 10), I(-1), R(-11, 10), Two,
               R(5, 2), I(-2), I(-3), R(-7, 2)},
        y \in {Zero, One, R(-3, 2)}, z \in {Zero, Two}}

InitLocal ==
    /\ world = NoWorld
    /\ stack = <<>>
    /\ result = None
    /\ ret = NoRet
    /\ \/ \E r \in CubeRays : call = [fn |-> "Cube::intersect", local_ray |-> r]
       \/ \E r \in SphereRays :
             /\ HasRationalRoot(sphere_discriminant(r))
             /\ call = [fn |-> "Sphere::intersect", local_ray |-> r]
       \/ \E s \in StripedPatterns, p \in StripedPoints :
             call = [fn |-> "Striped::color_at", pattern |-> s, point |-> p]

CallCubeIntersect ==
    /\ call.fn = "Cube::intersect"
    /\ ret.fn = "none"
    /\ ret' = [fn |-> "Cube::intersect",
               value |-> Cube_intersect_xyz(call.local_ray)]
    /\ UNCHANGED <<world, stack, result, call>>

CallSphereIntersect ==
    /\ call.fn = "Sphere::intersect"
    /\ ret.fn = "none"
    /\ ret' = [fn |-> "Sphere::intersect",
               value |-> Sphere_intersect_xyz(call.local_ray)]
    /\ UNCHANGED <<world, stack, result, call>>

CallStripedColorAt ==
    /\ call.fn = "Striped::color_at"
    /\ ret.fn = "none"
    /\ ret' = [fn |-> "Striped::color_at",
               value |-> Striped_color_at(call.pattern, call.point)]
    /\ UNCHANGED <<world, stack, result, call>>

NextLocal == CallCubeIntersect \/ CallSphereIntersect \/ CallStripedColorAt

SpecLocal == InitLocal /\ [][NextLocal]_vars

\* The values of t at which the line of the ray is inside the slab
\* -1 <= coordinate <= 1 of one axis: <<lo, hi>>, or <<>> when it never is.
Slab(origin, direction) ==
    IF direction = Zero
    THEN (IF RLe(RAbs(origin), One) THEN <<NEG_INFINITY, INFINITY>> ELSE <<>>)
    ELSE LET t1 == RDiv(RSub(I(-1), origin), direction)
             t2 == RDiv(RSub(One, origin), direction)
         IN  <<RMin(t1, t2), RMax(t1, t2)>>

\* C21: Cube::intersect returns nothing or exactly two values tmin <= tmax,
\* tmin the largest of the three per-axis entry values and tmax the
\* smallest of the three per-axis exit values; it returns nothing exactly
\* when the line of the ray misses the cube [-1, 1]^3.
C21_CubeIntersect ==
    ret.fn = "Cube::intersect" =>
        LET r == call.local_ray
            sx == Slab(r.origin.x, r.direction.x)
            sy == Slab(r.origin.y, r.direction.y)
            sz == Slab(r.origin.z, r.direction.z)
            misses ==
                \/ <<>> \in {sx, sy, sz}
                \/ RGt(RMax(RMax(sx[1], sy[1]), sz[1]),
                       RMin(RMin(sx[2], sy[2]), sz[2]))
        IN  /\ Len(ret.value) \in {0, 2}
            /\ ret.value = <<>> <=> misses
            /\ ret.value # <<>> =>
                  /\ RLe(ret.value[1], ret.value[2])
                  /\ ret.value[1] = RMax(RMax(sx[1], sy[1]), sz[1])
                  /\ ret.value[2] = RMin(RMin(sx[2], sy[2]), sz[2])

\* test_intersect_outside: from (-5, 0.5, 0) towards +x the cube is entered
\* at 4 and left at 6.
C21_EnterAndLeave ==
    /\ ret.fn = "Cube::intersect"
    /\ call.local_ray = Ray(point3(I(-5), R(1, 2), Zero), vector3(One, Zero, Zero))
    /\ ret.value = <<I(4), I(6)>>


\* C22: Sphere::intersect returns no root when the discriminant is
\* negative, one root when it is zero, and two roots in ascending order
\* and symmetric about -b/(2a) when it is positive; from (0, 0, -5) along
\* +z the roots are 4 and 6, and roots behind the origin are negative.
C22_SphereRoots ==
    ret.fn = "Sphere::intersect" =>
        LET r == call.local_ray
            o == [r.origin EXCEPT !.w = Zero]
            a == dot3(r.direction, r.direction)
            b == RMul(Two, dot3(r.direction, o))
            d == sphere_discriminant(r)
            mid == RDiv(RNeg(b), RMul(Two, a))
            OnSphere(t) ==
                dot3([x |-> RAdd(o.x, RMul(t, r.direction.x)),
                      y |-> RAdd(o.y, RMul(t, r.direction.y)),
                      z |-> RAdd(o.z, RMul(t, r.direction.z)), w |-> Zero],
                     [x |-> RAdd(o.x, RMul(t, r.direction.x)),
                      y |-> RAdd(o.y, RMul(t, r.direction.y)),
                      z |-> RAdd(o.z, RMul(t, r.direction.z)), w |-> Zero])
                = One
        IN  /\ RLt(d, Zero) => ret.value = <<>>
            /\ d = Zero => ret.value = <<mid>>
            /\ RGt(d, Zero) =>
                  /\ Len(ret.value) = 2
                  /\ RLt(ret.value[1], ret.value[2])
                  /\ RSub(mid, ret.value[1]) = RSub(ret.value[2], mid)
            /\ \A i \in 1..Len(ret.value) : OnSphere(ret.value[i])
            /\ (r = Ray(point3(Zero, Zero, I(-5)), vector3(Zero, Zero, One)))
                  => ret.value = <<I(4), I(6)>>
            /\ (r = Ray(point3(Zero, Zero, I(5)), vector3(Zero, Zero, One)))
                  => ret.value = <<I(-6), I(-4)>>

\* test_intersect_tangent: from (1, 0, -5) along +z the ray touches at 5.
C22_Tangent ==
    /\ ret.fn = "Sphere::intersect"
    /\ call.local_ray = Ray(point3(One, Zero, I(-5)), vector3(Zero, Zero, One))
    /\ ret.value = <<I(5)>>

\* C23: Striped::color_at returns the first color exactly when floor(x) is
\* even and the second when it is odd, also for negative x (-0.1 and -1
\* give the second color, -1.1 the first), whatever y and z are.
C23_StripesFollowFloorOfX ==
    ret.fn = "Striped::color_at" =>
        LET x == call.point.x
            s == call.pattern
            \* the integer k with k <= x < k + 1
            k == CHOOSE j \in -5..5 : RLe(I(j), x) /\ RLt(x, I(j + 1))
        IN  /\ (k % 2 = 0) => ret.value = s.color
            /\ (k % 2 = 1) => ret.value = s.other_color
            /\ x \in {R(-1, 10), I(-1)} => ret.value = s.other_color
            /\ x = R(-11, 10) => ret.value = s.color
            /\ \A y \in {Zero, One, R(-3, 2)}, z \in {Zero, Two} :
                  ret.value = Striped_color_at(s, point3(x, y, z))

\* x = -1.1 in a stripe of the first color, away from the x axis.
C23_NegativeX ==
    /\ ret.fn = "Striped::color_at"
    /\ call.point = point3(R(-11, 10), One, Two)
    /\ call.pattern.color = WHITE
    /\ ret.value = WHITE


---------------------------------------------------------------------------
(* intersection.rs: how far refractive_indices_for has walked when it      *)
(* reads n1 and n2.                                                        *)

\* The number of intersections toggled when n1 is read: the loop reads n1
\* in the iteration of the first intersection whose t equals the hit's.
RECURSIVE toggled_at_n1(_, _, _)
toggled_at_n1(self, all, i) ==
    IF i > Len(all) THEN Len(all)
    ELSE IF REq(all[i].t, self.t) THEN i - 1
    ELSE toggled_at_n1(self, all, i + 1)

\* C24: when prepare_computations is called on the intersection at index k
\* (counted from 0) of the ordered list, exactly the intersections at
\* indices 0..k-1 have been toggled when n1 is read and exactly those at
\* 0..k when n2 is read, also when another intersection has the hit's t.
\* The model counts from 1, so k-1 intersections precede the k-th.
C24_ToggledUpToTheHit ==
    ret.fn = "prepare_computations" =>
        LET xs == call.all_intersections
            n == toggled_at_n1(xs[call.k], xs, 1)
        IN  /\ n = call.k - 1
            /\ ret.value.n1 =
                  last_refractive(world.objects,
                      containment_list(world.objects, xs, call.k - 1))
            /\ ret.value.n2 =
                  last_refractive(world.objects,
                      containment_list(world.objects, xs, call.k))

\* The plane lies in the cube's lower face: both are entered at t = 3. For
\* the plane's intersection, second in the list, n1 is read before anything
\* is toggled and n2 after the cube alone is.
C24_CoincidentSurfaces ==
    /\ ret.fn = "prepare_computations"
    /\ world.objects = <<RefrCube, RefrPlane>>
    /\ call.ray = Ray(point(I(-4)), vector(One))
    /\ call.k = 2
    /\ call.all_intersections[1].t = call.all_intersections[2].t
    /\ call.all_intersections[2].object = 2
    /\ toggled_at_n1(call.all_intersections[2], call.all_intersections, 1) = 0
    /\ ret.value.n1 = One
    /\ ret.value.n2 = Two


\* C25: every wall intersection Cone::intersect returns for a truncated or
\* capped cone has its height origin.y + t * direction.y strictly between
\* minimum and maximum, the single root of the linear case (a ~ 0, b not
\* ~ 0) included. The wall intersections come first in the returned list.
C25_ConeWallHitsStrictlyInside ==
    ret.fn = "Cone::intersect" =>
        LET cone == call.shape
            r == call.local_ray
            walls == Cone_intersect_walls(cone, r)
        IN  /\ SubSeq(ret.value, 1, Len(walls)) = walls
            /\ \A k \in 1..Len(walls) :
                  LET y == RAdd(r.origin.y, RMul(ret.value[k], r.direction.y))
                  IN  RGt(y, cone.minimum) /\ RLt(y, cone.maximum)

\* A ray parallel to the side of the capped cone (-0.5, 0.5): a = 0,
\* b = -10, and the single root t = 1.25 is returned although it meets the
\* cone at height 1.25, above the upper end.
C25_LinearRootAboveMaximum ==
    /\ ret.fn = "Cone::intersect"
    /\ call.shape.maximum = R(1, 2)
    /\ call.local_ray = Ray(point3(Zero, Zero, I(-5)), vector3(Zero, One, One))
    /\ Cone_intersect_walls(call.shape, call.local_ray) = <<R(5, 4)>>
    /\ ret.value[1] = R(5, 4)
    /\ At(call.local_ray, ret.value[1]).y = R(5, 4)


---------------------------------------------------------------------------
(* world.rs: the budget of the recursive color_at calls.                   *)

\* reflected and refracted color_at calls both made, a binary tree of
\* depth d: 2^(d+1) - 1 invocations.
RECURSIVE Invocations(_)
Invocations(d) == IF d <= 0 THEN 1 ELSE 1 + 2 * Invocations(d - 1)

\* The invocations a frame can still start, directly or through the calls
\* it has not made yet; the calls above it on the stack are not counted.
Pending(f) ==
    IF f.remaining <= 0 THEN 0
    ELSE CASE f.pc \in {"color_at", "shade_hit", "reflected_color"} ->
                  2 * Invocations(f.remaining - 1)
           [] f.pc \in {"reflected_wait", "refracted_color"} ->
                  Invocations(f.remaining - 1)
           [] OTHER -> 0

RECURSIVE PendingAll(_)
PendingAll(frames) ==
    IF frames = <<>> THEN 0
    ELSE Pending(frames[Len(frames)])
             + PendingAll(SubSeq(frames, 1, Len(frames) - 1))

\* Every call in progress was made with the caller's budget minus one, by
\* a caller whose budget was at least 1, and no budget is below 0.
BudgetChain ==
    \A i \in DOMAIN stack :
        /\ stack[i].remaining >= 0
        /\ stack[i].reflected_call # None =>
              /\ stack[i].remaining >= 1
              /\ stack[i].reflected_call[1].remaining = stack[i].remaining - 1
        /\ stack[i].refracted_call # None =>
              /\ stack[i].remaining >= 1
              /\ stack[i].refracted_call[1].remaining = stack[i].remaining - 1
        /\ i > 1 =>
              /\ stack[i - 1].remaining >= 1
              /\ stack[i].remaining = stack[i - 1].remaining - 1
              /\ stack[i].remaining < stack[i - 1].remaining

\* C26: every recursive color_at call made from reflected_color or
\* refracted_color receives exactly the budget minus one and is made only
\* when the budget is at least 1, so the budget never underflows and
\* strictly decreases along every chain of calls; and color_at with budget
\* d performs at most 2^(d+1) - 1 invocations: every invocation started
\* takes one from the number still possible, which is 2^(d+1) - 2 after
\* the first and never grows.
C26_BudgetThreaded ==
    /\ []BudgetChain
    /\ [](PendingAll(stack) <= Invocations(call.remaining) - 1)
    /\ [][/\ Len(stack') = Len(stack) + 1 =>
                /\ PendingAll(stack') = PendingAll(stack) - 1
                /\ stack'[Len(stack')].remaining = Top.remaining - 1
                /\ Top.remaining >= 1
          /\ PendingAll(stack') <= PendingAll(stack)]_vars

\* A surface that is both reflective and transparent, budget 2: the
\* reflected call has returned and the refracted call, with budget 1, is
\* in progress.
C26_BothCallsMade ==
    /\ Len(stack) = 2
    /\ call.remaining = 2
    /\ stack[1].reflected_call # None
    /\ stack[1].refracted_call # None
    /\ stack[1].pc = "refracted_wait"
    /\ stack[2].role = "refracted"
    /\ stack[2].remaining = 1


---------------------------------------------------------------------------
(* intersection.rs: refractive_indices_for, one iteration of its loop at a *)
(* time.  ret holds the locals of the call in progress: the number of      *)
(* intersections processed, containers, n1, n2, and whether it returned.   *)

\* An intersection that is not in any list: no object is met at t = 100.
ForeignIntersection == Intersection(I(100), 1)

InitWalk ==
    /\ world \in RefrWorlds
    /\ stack = <<>>
    /\ result = None
    /\ \E ray \in RefrRays :
          LET xs == World_intersect(world, ray)
          IN  \E self \in {xs[k] : k \in DOMAIN xs} \cup {ForeignIntersection} :
                 call = [fn |-> "refractive_indices_for", self |-> self,
                         all_intersections |-> xs]
    /\ ret = [fn |-> "refractive_indices_for", processed |-> 0,
              containers |-> <<>>, n1 |-> One, n2 |-> One, returned |-> FALSE]

\* One iteration of the for loop; the iteration of the hit ends the loop.
RefractiveIteration ==
    /\ ret.fn = "refractive_indices_for"
    /\ ~ret.returned
    /\ ret.processed < Len(call.all_intersections)
    /\ \E intersection \in {call.all_intersections[ret.processed + 1]} :
       \E toggled \in {toggle_container(world.objects, ret.containers,
                                        intersection)} :
          ret' = [ret EXCEPT
                     !.processed = @ + 1,
                     !.containers = toggled,
                     !.n1 = IF REq(intersection.t, call.self.t)
                            THEN last_refractive(world.objects, ret.containers)
                            ELSE @,
                     !.n2 = IF REq(intersection.t, call.self.t)
                            THEN last_refractive(world.objects, toggled)
                            ELSE @,
                     !.returned = REq(intersection.t, call.self.t)]
    /\ UNCHANGED <<world, stack, result, call>>

\* The list is exhausted: (n1, n2) is returned as it is.
RefractiveExhausted ==
    /\ ret.fn = "refractive_indices_for"
    /\ ~ret.returned
    /\ ret.processed = Len(call.all_intersections)
    /\ ret' = [ret EXCEPT !.returned = TRUE]
    /\ UNCHANGED <<world, stack, result, call>>

NextWalk == RefractiveIteration \/ RefractiveExhausted

SpecWalk == InitWalk /\ [][NextWalk]_vars

\* The number of intersections of object o among the first n of the list.
Crossings(all, n, o) == Cardinality({k \in 1..n : all[k].object = o})

C27_ForeignHit ==
    /\ ret.fn = "refractive_indices_for"
    /\ call.self = ForeignIntersection
    /\ Len(call.all_intersections) >= 2
    /\ ret.returned
    /\ ret.n1 = One
    /\ ret.n2 = One


---------------------------------------------------------------------------
(* canvas.rs: Canvas::new, get_pixel, set_pixel.  The canvas the calls are *)
(* made on is kept in result.                                              *)

MaxCanvasSide == 3
MaxPainted == 2

\* Canvas::new: w * h black pixels.
Canvas_new(w, h) ==
    [width |-> w, height |-> h, pixels |-> [k \in 1..(w * h) |-> BLACK]]

\* The index of pixel (x, y) in the vector of pixels, counted from 0.
pixel_index(canvas, x, y) == x + y * canvas.height

\* self.pixels[..] panics when the index is not below the length.
index_panics(canvas, x, y) == pixel_index(canvas, x, y) >= Len(canvas.pixels)

get_pixel(canvas, x, y) == canvas.pixels[pixel_index(canvas, x, y) + 1]

set_pixel(canvas, x, y, c) ==
    [canvas EXCEPT !.pixels[pixel_index(canvas, x, y) + 1] = c]

TheCanvas == result[1]

InRange(canvas) ==
    {<<x, y>> : x \in 0..(canvas.width - 1), y \in 0..(canvas.height - 1)}

Painted(canvas) ==
    Cardinality({k \in DOMAIN canvas.pixels : canvas.pixels[k] # BLACK})

CanvasColors == {Color(One, Zero, Zero), WHITE}

InitCanvas ==
    /\ world = NoWorld
    /\ stack = <<>>
    /\ \E w \in 1..MaxCanvasSide, h \in 1..MaxCanvasSide :
          result = Some(Canvas_new(w, h))
    /\ call = NoCall
    /\ ret = NoRet

\* set_pixel at an in-range coordinate.
CallSetPixel ==
    /\ Painted(TheCanvas) < MaxPainted
    /\ \E p \in InRange(TheCanvas), c \in CanvasColors :
          /\ call' = [fn |-> "set_pixel", x |-> p[1], y |-> p[2], c |-> c]
          /\ IF index_panics(TheCanvas, p[1], p[2])
             THEN /\ ret' = [fn |-> "set_pixel", panic |-> TRUE]
                  /\ result' = result
             ELSE /\ ret' = [fn |-> "set_pixel", panic |-> FALSE]
                  /\ result' = Some(set_pixel(TheCanvas, p[1], p[2], c))
    /\ UNCHANGED <<world, stack>>

\* get_pixel at an in-range coordinate.
CallGetPixel ==
    /\ \E p \in InRange(TheCanvas) :
          /\ call' = [fn |-> "get_pixel", x |-> p[1], y |-> p[2]]
          /\ ret' = IF index_panics(TheCanvas, p[1], p[2])
                    THEN [fn |-> "get_pixel", panic |-> TRUE]
                    ELSE [fn |-> "get_pixel", panic |-> FALSE,
                          value |-> get_pixel(TheCanvas, p[1], p[2])]
    /\ UNCHANGED <<world, stack, result>>

NextCanvas == CallSetPixel \/ CallGetPixel

SpecCanvas == InitCanvas /\ [][NextCanvas]_vars

\* C28: for every in-range coordinate get_pixel after set_pixel(x, y, c)
\* returns c without an out-of-bounds access, set_pixel leaves the pixel
\* at every other in-range coordinate unchanged, and a new canvas is black
\* at every coordinate.
C28_PixelsAreIndependent ==
    /\ [](ret.fn \in {"set_pixel", "get_pixel"} => ~ret.panic)
    /\ [](ret.fn = "set_pixel" /\ ~ret.panic =>
             get_pixel(TheCanvas, call.x, call.y) = call.c)
    /\ [](ret.fn = "none" =>
             \A p \in InRange(TheCanvas) :
                 /\ ~index_panics(TheCanvas, p[1], p[2])
                 /\ get_pixel(TheCanvas, p[1], p[2]) = BLACK)
    /\ [][(call'.fn = "set_pixel" /\ ~ret'.panic) =>
             \A p \in InRange(TheCanvas) :
                 (p # <<call'.x, call'.y>>
                  /\ ~index_panics(TheCanvas, p[1], p[2]))
                     => get_pixel(result'[1], p[1], p[2])
                            = get_pixel(TheCanvas, p[1], p[2])]_vars

\* On a canvas 3 wide and 2 high, (2, 0) and (0, 1) are the same cell:
\* pixel (2, 0) was painted red, and set_pixel(0, 1, white) made it white.
C28_SharedCell ==
    /\ TheCanvas.width = 3
    /\ TheCanvas.height = 2
    /\ call = [fn |-> "set_pixel", x |-> 0, y |-> 1, c |-> WHITE]
    /\ ~ret.panic
    /\ pixel_index(TheCanvas, 2, 0) = pixel_index(TheCanvas, 0, 1)
    /\ get_pixel(TheCanvas, 2, 0) = WHITE
    /\ Painted(TheCanvas) = 1

\* On a canvas 2 wide and 3 high, set_pixel(0, 2, c) is out of bounds.
C28_OutOfBounds ==
    /\ TheCanvas.width = 2
    /\ TheCanvas.height = 3
    /\ call.fn = "set_pixel"
    /\ call.x = 0
    /\ call.y = 2
    /\ ret.panic


---------------------------------------------------------------------------
(* ppm.rs: Canvas::save.  A text is a sequence of characters, the file a   *)
(* sequence of lines; a writer is the file together with current_line.     *)

MAX_LINE_WIDTH == 70
MAX_COLOR_COMPONENT_WIDTH == 3

MaxSaveWidth == 8
MaxSaveHeight == 2

\* scale_and_clamp: 0 below 0, 255 from 1.0 on, (f * 256.) as u8 between.
scale_and_clamp(f) ==
    IF RLt(f, Zero) THEN 0
    ELSE IF RGe(f, One) THEN 255
    ELSE IF IsNaN(f) THEN 0
    ELSE (f.n * 256) \div f.d

Digit(d) == <<"0", "1", "2", "3", "4", "5", "6", "7", "8", "9">>[d + 1]

\* n.to_string() for an unsigned n: its decimal digits.
RECURSIVE to_string(_)
to_string(n) ==
    IF n < 10 THEN <<Digit(n)>>
    ELSE Append(to_string(n \div 10), Digit(n % 10))

Writer(file, current_line) == [file |-> file, current_line |-> current_line]

write_header(canvas) ==
    <<<<"P", "3">>,
      to_string(canvas.width) \o <<" ">> \o to_string(canvas.height),
      <<"2", "5", "5">>>>

write_color_component(writer, f) ==
    [writer EXCEPT !.current_line = @ \o to_string(scale_and_clamp(f))]

write_separator(writer) ==
    IF Len(writer.current_line) >= MAX_LINE_WIDTH - MAX_COLOR_COMPONENT_WIDTH
    THEN Writer(Append(writer.file, writer.current_line), <<>>)
    ELSE [writer EXCEPT !.current_line = Append(@, " ")]

write_color(writer, c) ==
    write_color_component(
        write_separator(
            write_color_component(
                write_separator(write_color_component(writer, c.r)),
                c.g)),
        c.b)

\* F(v), with v computed before F is applied.
Strict(v, F(_)) == CHOOSE r \in {F(x) : x \in {v}} : TRUE

\* The for loop of write_pixel_row from column x on.
RECURSIVE write_pixels_from(_, _, _, _)
write_pixels_from(canvas, writer, x, y) ==
    IF x >= canvas.width THEN writer
    ELSE Strict(write_color(writer, get_pixel(canvas, x, y)), LAMBDA written :
         Strict(IF x < canvas.width - 1
                THEN [written EXCEPT !.current_line = Append(@, " ")]
                ELSE written, LAMBDA next :
             write_pixels_from(canvas, next, x + 1, y)))

write_pixel_row(canvas, file, y) ==
    Let(write_pixels_from(canvas, Writer(file, <<>>), 0, y), LAMBDA writer :
        Append(writer.file, writer.current_line))

\* The for loop of write_body from row y on.
RECURSIVE write_body(_, _, _)
write_body(canvas, file, y) ==
    IF y >= canvas.height THEN file
    ELSE Strict(write_pixel_row(canvas, file, y), LAMBDA written :
             write_body(canvas, written, y + 1))

\* get_pixel panics in write_pixel_row when its index is out of bounds.
save_panics(canvas) ==
    \E p \in InRange(canvas) : index_panics(canvas, p[1], p[2])

save(canvas) == write_body(canvas, write_header(canvas), 0)

\* Colors whose components are written with one, two and three digits:
\* 0 0 0, 255 204 153 (test_save_splitting_long_lines), 0 255 255,
\* 25 128 5.
SavedColors ==
    {BLACK, Color(One, R(4, 5), R(3, 5)), Color(Zero, One, One),
     Color(R(1, 10), R(1, 2), R(1, 50))}

\* Canvases whose first pixel has one color and the others another.
InitSave ==
    /\ world = NoWorld
    /\ stack = <<>>
    /\ \E w \in 1..MaxSaveWidth, h \in 1..MaxSaveHeight :
       \E first \in SavedColors, others \in SavedColors :
          result = Some([Canvas_new(w, h) EXCEPT
                            !.pixels = [k \in 1..(w * h) |->
                                           IF k = 1 THEN first ELSE others]])
    /\ call = [fn |-> "save"]
    /\ ret = NoRet

CallSave ==
    /\ call.fn = "save"
    /\ ret.fn = "none"
    /\ ret' = IF save_panics(TheCanvas)
              THEN [fn |-> "save", panic |-> TRUE]
              ELSE [fn |-> "save", panic |-> FALSE, file |-> save(TheCanvas)]
    /\ UNCHANGED <<world, stack, result, call>>

NextSave == CallSave

SpecSave == InitSave /\ [][NextSave]_vars

\* C29: no line of the pixel body written by Canvas::save is longer than
\* MAX_LINE_WIDTH characters, for every canvas width and every mix of
\* one-, two- and three-digit color components.  The body is what follows
\* the three lines of the header.
C29_LinesFit ==
    (ret.fn = "save" /\ ~ret.panic) =>
        \A k \in 4..Len(ret.file) : Len(ret.file[k]) <= MAX_LINE_WIDTH

\* A row of seven pixels, the first 0 255 255 and the others 255 204 153:
\* the first line written is 73 characters long and ends with the first
\* component of the seventh pixel.
C29_LineOf73 ==
    /\ ret.fn = "save"
    /\ ~ret.panic
    /\ TheCanvas.width = 7
    /\ TheCanvas.height = 1
    /\ TheCanvas.pixels[1] = Color(Zero, One, One)
    /\ TheCanvas.pixels[2] = Color(One, R(4, 5), R(3, 5))
    /\ Len(ret.file) = 5
    /\ Len(ret.file[4]) = 73
    /\ ret.file[5] = <<"2", "0", "4", " ", "1", "5", "3">>


---------------------------------------------------------------------------
(* camera.rs: Camera::render.  The color of a pixel is kept as the term    *)
(* color_at(ray_at(x, y)); which pixels are set does not depend on it.     *)

\* test_render renders 11 by 11 pixels.
MaxRenderSide == 11

Camera(horizontal_size, vertical_size) ==
    [horizontal_size |-> horizontal_size, vertical_size |-> vertical_size]

\* world.color_at(&self.ray_at(x, y)).
color_of_ray_at(x, y) == [fn |-> "color_at", ray |-> [fn |-> "ray_at", x |-> x, y |-> y]]

\* The coordinates of the loops `for y in 0..vertical_size - 1` and
\* `for x in 0..horizontal_size - 1`, in the order they are visited.
render_coordinates(camera) ==
    [k \in 1..((camera.horizontal_size - 1) * (camera.vertical_size - 1)) |->
        <<(k - 1) % (camera.horizontal_size - 1),
          (k - 1) \div (camera.horizontal_size - 1)>>]

\* The canvas after the set_pixel calls of render: a cell holds the color
\* of the last call that wrote it.
rendered_canvas(camera, coordinates) ==
    Let(Canvas_new(camera.horizontal_size, camera.vertical_size),
        LAMBDA canvas :
        [canvas EXCEPT !.pixels =
            [i \in DOMAIN canvas.pixels |->
                Let({k \in DOMAIN coordinates :
                        pixel_index(canvas, coordinates[k][1],
                                    coordinates[k][2]) = i - 1},
                    LAMBDA writes :
                    IF writes = {} THEN BLACK
                    ELSE Let(CHOOSE k \in writes : \A j \in writes : j <= k,
                             LAMBDA last :
                             color_of_ray_at(coordinates[last][1],
                                             coordinates[last][2])))]])

\* A set_pixel call of render is out of bounds.
render_panics(camera, coordinates) ==
    \E k \in DOMAIN coordinates :
        index_panics(Canvas_new(camera.horizontal_size, camera.vertical_size),
                     coordinates[k][1], coordinates[k][2])

InitRender ==
    /\ world = NoWorld
    /\ stack = <<>>
    /\ result = None
    /\ \E w \in 1..MaxRenderSide, h \in 1..MaxRenderSide :
          call = [fn |-> "render", camera |-> Camera(w, h)]
    /\ ret = NoRet

CallRender ==
    /\ call.fn = "render"
    /\ ret.fn = "none"
    /\ \E coordinates \in {render_coordinates(call.camera)} :
          ret' = IF render_panics(call.camera, coordinates)
                 THEN [fn |-> "render", panic |-> TRUE,
                       set_pixel |-> coordinates]
                 ELSE [fn |-> "render", panic |-> FALSE,
                       set_pixel |-> coordinates,
                       canvas |-> rendered_canvas(call.camera, coordinates)]
    /\ UNCHANGED <<world, stack, result, call>>

NextRender == CallRender

SpecRender == InitRender /\ [][NextRender]_vars

\* C30: Camera::render does not fail for any positive canvas size, and
\* for every x below horizontal_size and every y below vertical_size, the
\* last column and the last row included, it performs
\* set_pixel(x, y, color_at(ray_at(x, y))) exactly once.
C30_EveryPixelRendered ==
    ret.fn = "render" =>
        /\ ~ret.panic
        /\ \A x \in 0..(call.camera.horizontal_size - 1),
              y \in 0..(call.camera.vertical_size - 1) :
              /\ Cardinality({k \in DOMAIN ret.set_pixel :
                                 ret.set_pixel[k] = <<x, y>>}) = 1
              /\ get_pixel(ret.canvas, x, y) = color_of_ray_at(x, y)

\* test_render: on the 11 by 11 canvas pixel (5, 5) is set, and no pixel
\* of the last column or the last row is: 100 of the 121 pixels are set.
C30_LastRowAndColumnSkipped ==
    /\ ret.fn = "render"
    /\ call.camera = Camera(11, 11)
    /\ ~ret.panic
    /\ Len(ret.set_pixel) = 100
    /\ get_pixel(ret.canvas, 5, 5) = color_of_ray_at(5, 5)
    /\ \A k \in DOMAIN ret.set_pixel :
          ret.set_pixel[k][1] # 10 /\ ret.set_pixel[k][2] # 10
    /\ get_pixel(ret.canvas, 10, 5) = BLACK
    /\ get_pixel(ret.canvas, 5, 10) = BLACK

\* A canvas 2 wide and 4 high: set_pixel(0, 2, ..) is out of bounds.
C30_RenderPanics ==
    /\ ret.fn = "render"
    /\ call.camera = Camera(2, 4)
    /\ ret.panic
    /\ \E k \in DOMAIN ret.set_pixel : ret.set_pixel[k] = <<0, 2>>

=============================================================================
